---- MODULE Spec2Model ----
(***************************************************************************)
(* A model of pi-parallel-agents: the team-mode DAG executor (dag.ts), the *)
(* subprocess executor (executor.ts), the bounded worker pool and the race *)
(* selector (parallel.ts) and the mode dispatcher (index.ts).              *)
(*                                                                         *)
(* The coordinator is a single JavaScript event loop: every action below   *)
(* is one synchronous stretch of code between two suspension points (an    *)
(* await on a child process, on the approval callback, ...).  The events   *)
(* that can happen at a suspension point are the actions of the model.     *)
(***************************************************************************)
EXTENDS Integers, Sequences, FiniteSets, TLC

VARIABLES
    \* ---- executeDag (dag.ts) and its caller, team mode of execute ----
    teamMaxConcurrency, \* params.team.maxConcurrency (0 stands for "not given")
    onApprovalNeeded,   \* TRUE iff the caller of executeDag supplied the callback
    nodes,              \* Map<string, DagNode>, keys 1..N in insertion order
    maxConcurrency,     \* options.maxConcurrency of executeDag
    signalAborted,      \* signal.aborted of the caller's cancellation token
    pc,                 \* where the coordinator is suspended
    batch,              \* the batch of the current scheduler iteration
    batchResults,       \* node id -> TaskResult of its batch child (run = 0: none yet)
                        \* and its rank among the children of the batch that closed
    procIdx,            \* index into batch of the result being processed
    cur,                \* node whose review cycle is suspended (0: none)
    allResults,         \* allResults of executeDag
    spawned,            \* every child spawned so far, in spawn order
    rejections,         \* number of rejected approvals so far
    dagReturn,          \* the DagExecutionResult, once executeDag has returned
    \* ---- one call of runAgent (executor.ts) and its child process ----
    ra,
    \* ---- parallel mode of execute and mapWithConcurrencyLimit ----
    pool,
    \* ---- race mode of execute and raceWithAbort ----
    race,
    \* ---- execute: mode detection and validation ----
    disp,
    \* ---- execute: chain mode ----
    chain,
    \* ---- one call of a synchronous function (buildDag, truncateOutput, ...) ----
    fn

dagVars == <<teamMaxConcurrency, onApprovalNeeded, nodes, maxConcurrency,
             signalAborted, pc, batch, batchResults, procIdx, cur, allResults,
             spawned, rejections, dagReturn>>

extVars == <<chain, fn>>

nonDagVars == <<ra, pool, race, disp, extVars>>

vars == <<dagVars, ra, pool, race, disp, extVars>>

Min(a, b) == IF a < b THEN a ELSE b
Max(a, b) == IF a > b THEN a ELSE b

(***************************************************************************)
(* Program constants.                                                      *)
(***************************************************************************)
MAX_CONCURRENCY == 8
DEFAULT_CONCURRENCY == 4
DEFAULT_MAX_ITERATIONS == 3

\* The exit code Node reports for a child terminated by a signal (null).
NullCode == -1

(***************************************************************************)
(* Bounds of the model.                                                    *)
(***************************************************************************)
\* review.maxIterations ranges over 0..MaxIterations and "not given"
MaxIterations == 1
\* the approval callback rejects at most MaxRejections times in a run
MaxRejections == 1

(***************************************************************************)
(* runAgent: the TaskResult assembled from the child's exit.               *)
(***************************************************************************)
\* proc.on("close", (code) => resolve(code ?? 0))
CloseCode(code) == IF code = NullCode THEN 0 ELSE code

\* the result assembly without the detection of API errors
RunAgentResultNoRewrite(code, tokenFired, apiError) ==
    LET exitCode == CloseCode(code)
    IN  [exitCode |-> exitCode,
         aborted  |-> tokenFired,
         error    |-> IF exitCode # 0 /\ ~tokenFired THEN "exit" ELSE "none"]

\* Result assembly of runAgent: the exit code as resolved, aborted iff killProc
\* ran (the token fired, or had fired, while the child was awaited), the error
\* and the API-error rewrite.  error: "none" | "exit" | "api".
RunAgentResult(code, tokenFired, apiError) ==
    LET exitCode == CloseCode(code)
        error1   == IF exitCode # 0 /\ ~tokenFired THEN "exit" ELSE "none"
        rewrite  == apiError /\ error1 = "none"
    IN  [exitCode |-> IF rewrite THEN 1 ELSE exitCode,
         aborted  |-> tokenFired,
         error    |-> IF rewrite THEN "api" ELSE error1]

ExitCodes == {0, 1, NullCode}

\* What executeDag keeps of a TaskResult: exitCode, aborted and the output,
\* which is identified by the number of the run (its index in spawned).
NoResult == [exitCode |-> 0, aborted |-> FALSE, run |-> 0]
DagResult(r, run) == [exitCode |-> r.exitCode, aborted |-> r.aborted, run |-> run]

\* The promise of a batch child: its TaskResult once it has resolved, and
\* finished, its rank among the promises of the batch in the order they resolved.
PendingResult == [result |-> NoResult, finished |-> 0]

(***************************************************************************)
(* dag.ts: helpers.                                                        *)
(***************************************************************************)
NodeIds(ns) == DOMAIN ns
IdSeq(ns) == [i \in 1..Len(ns) |-> i]

\* as allDepsComplete, but a dependency whose plan awaits approval counts as done
allDepsCompleteOrAwaiting(ns, n) ==
    \A d \in ns[n].dependsOn : ns[d].status \in {"completed", "awaiting_approval"}

allDepsComplete(ns, n) == \A d \in ns[n].dependsOn : ns[d].status = "completed"
anyDepFailed(ns, n) == \E d \in ns[n].dependsOn : ns[d].status = "failed"

\* the readiness pass that looks at the nodes of every status
AnyStatus(node) == TRUE

\* if (node.status !== "pending") continue
IsPending(node) == node.status = "pending"

\* The loop writes only "blocked" and "ready" and reads only "completed" and
\* "failed", so updating all nodes at once equals the sequential loop.
updateReadyState(ns) ==
    [n \in NodeIds(ns) |->
        IF ~IsPending(ns[n]) THEN ns[n]
        ELSE IF anyDepFailed(ns, n) THEN [ns[n] EXCEPT !.status = "blocked"]
        ELSE IF allDepsComplete(ns, n) THEN [ns[n] EXCEPT !.status = "ready"]
        ELSE ns[n]]

getReadyTasks(ns) == SelectSeq(IdSeq(ns), LAMBDA i : ns[i].status = "ready")

\* the test that ends the loop as soon as no task is ready
noTaskReady(ns) ==
    \A n \in NodeIds(ns) : ns[n].status # "ready"

isDagComplete(ns) ==
    \A n \in NodeIds(ns) : ns[n].status \in {"completed", "failed", "blocked"}

\* [...nodes.values()].find(awaiting_approval): 0 when there is none
getPendingApproval(ns) ==
    LET waiting == SelectSeq(IdSeq(ns), LAMBDA i : ns[i].status = "awaiting_approval")
    IN  IF waiting = <<>> THEN 0 ELSE Head(waiting)

\* Array.prototype.slice(0, k), k an integer
Slice0(s, k) ==
    SubSeq(s, 1, IF k < 0 THEN Max(Len(s) + k, 0) ELSE Min(k, Len(s)))

\* the limit that admits one more iteration
MaxIterOneMore(node) ==
    (IF node.review.hasMax THEN node.review.maxIterations
     ELSE DEFAULT_MAX_ITERATIONS) + 1

\* review.maxIterations ?? DEFAULT_MAX_ITERATIONS
MaxIter(node) ==
    IF node.review.hasMax THEN node.review.maxIterations ELSE DEFAULT_MAX_ITERATIONS

(***************************************************************************)
(* The inputs: team tasks.                                                 *)
(***************************************************************************)
NoReview == [present |-> FALSE, hasMax |-> FALSE, maxIterations |-> 0]
ReviewConfigs ==
    {[present |-> TRUE, hasMax |-> FALSE, maxIterations |-> 0]} \cup
    {[present |-> TRUE, hasMax |-> TRUE, maxIterations |-> m] : m \in 0..MaxIterations}

\* The dependency shapes: dependsOn of every task, in declared order.
DagShapes ==
    { <<{}>>,                       \* a single task
      <<{}, {1}, {2}>>,             \* a chain
      <<{}, {1}, {1}>>,             \* fan-out
      <<{}, {}, {1, 2}>>,           \* fan-in
      <<{}, {}, {}>>,               \* independent tasks
      <<{2}, {}>> }                 \* declared out of dependency order

\* buildDag on valid tasks, up to its last step: a pending node per task
createNodes(shape, approval, review) ==
    [n \in 1..Len(shape) |->
        [dependsOn        |-> shape[n],
         requiresApproval |-> n \in approval,
         review           |-> IF n \in review.of THEN review.config ELSE NoReview,
         feedback         |-> 0,
         status           |-> "pending",
         result           |-> NoResult,
         iteration        |-> 0,
         reviewHistory    |-> <<>>]]

\* The runs checked: every shape with at most one approval task, the shapes
\* of at most two tasks with reviews of one configuration (and an approval
\* task), one team of four tasks and one of three with a reviewed task.
ReviewShapes == { <<{}>>, <<{}, {}>>, <<{}, {1}>> }
DagInputs ==
    { createNodes(shape, approval, [of |-> {}, config |-> NoReview]) :
        shape \in DagShapes, approval \in {{}, {1}, {2}} }
    \cup
    { createNodes(shape, approval, [of |-> rev, config |-> config]) :
        shape \in ReviewShapes,
        approval \in {{}, {1}},
        rev \in {{1}, {2}, {1, 2}},
        config \in ReviewConfigs }
    \cup
    \* an approval task declared after two tasks that wait for a later one
    { createNodes(<<{4}, {4}, {}, {}>>, {3}, [of |-> {}, config |-> NoReview]) }
    \cup
    \* a reviewed task, first of a batch of two, with a task that waits for it
    { createNodes(<<{}, {}, {1}>>, {}, [of |-> {1}, config |-> config]) :
        config \in {[present |-> TRUE, hasMax |-> FALSE, maxIterations |-> 0]} }

HasApprovalTask(ns) == \E n \in NodeIds(ns) : ns[n].requiresApproval

\* team.maxConcurrency: any number; 0 also stands for "not given"
TeamMaxConcurrencyValues == {-1, 0, 1, 2, 9}

\* teamMaxConcurrency || DEFAULT_CONCURRENCY
OrDefault(v, d) == IF v = 0 THEN d ELSE v

\* execute, team mode: const maxConc = Math.min(.. || DEFAULT_CONCURRENCY, MAX_CONCURRENCY)
TeamMaxConc(requested) == Min(OrDefault(requested, DEFAULT_CONCURRENCY), MAX_CONCURRENCY)

(***************************************************************************)
(* executeDag.                                                             *)
(***************************************************************************)
\* A part of the program that a specification does not run stays idle.
Idle == [pc |-> "idle"]
ExtIdle == chain = Idle /\ fn = Idle

DagInit ==
    /\ teamMaxConcurrency \in TeamMaxConcurrencyValues
    /\ nodes \in DagInputs
    \* the callback matters only to a run with an approval task
    /\ onApprovalNeeded \in (IF HasApprovalTask(nodes) THEN BOOLEAN ELSE {FALSE})
    /\ maxConcurrency = 0
    /\ signalAborted = FALSE
    /\ pc = "start"
    /\ batch = <<>>
    /\ batchResults = <<>>
    /\ procIdx = 0
    /\ cur = 0
    /\ allResults = <<>>
    /\ spawned = <<>>
    /\ rejections = 0
    /\ dagReturn = [returned |-> FALSE, aborted |-> FALSE]

InBatch(n) == \E i \in 1..Len(batch) : batch[i] = n
ChildRunning(n) == InBatch(n) /\ batchResults[n].finished = 0
\* the number of promises of the batch that have resolved
Resolved == Cardinality({n \in NodeIds(nodes) : InBatch(n) /\ batchResults[n].finished # 0})
AllClosed == \A n \in NodeIds(nodes) : ~ChildRunning(n)

\* runAgent is entered: the child is spawned whatever the state of the token
\* (the token is looked at after spawn()).
SpawnRecord(n, kind, tools) ==
    [node |-> n, kind |-> kind, tools |-> tools, tokenFired |-> signalAborted]

\* tools of a batch worker: read-only "if requires approval" and status running
WorkerTools(node) ==
    IF node.requiresApproval /\ node.status = "running" THEN "readonly" ELSE "member"

\* execute, team mode: compute maxConc, buildDag's readiness pass, call executeDag
TeamExecute ==
    /\ pc = "start"
    /\ maxConcurrency' = TeamMaxConc(teamMaxConcurrency)
    /\ nodes' = updateReadyState(nodes)
    /\ pc' = "loop"
    /\ UNCHANGED <<teamMaxConcurrency, onApprovalNeeded, signalAborted, batch,
                   batchResults, procIdx, cur, allResults, spawned, rejections,
                   dagReturn>>
    /\ UNCHANGED nonDagVars

\* return { results: allResults, aborted }
DagReturns(ns, aborted) ==
    /\ nodes' = ns
    /\ pc' = "returned"
    /\ dagReturn' = [returned |-> TRUE, aborted |-> aborted]
    /\ UNCHANGED <<batch, batchResults, procIdx, spawned>>

\* From getReadyTasks to the await of the batch: break when nothing is ready,
\* else slice the batch, mark it running and enter runAgent for each node.
SelectBatch(ns) ==
    LET readyTasks == getReadyTasks(ns)
        b          == Slice0(readyTasks, maxConcurrency)
        marked     == [n \in NodeIds(ns) |->
                          IF \E i \in 1..Len(b) : b[i] = n
                          THEN [ns[n] EXCEPT !.status = "running"] ELSE ns[n]]
    IN  IF readyTasks = <<>>
        THEN DagReturns(ns, signalAborted)
        ELSE /\ nodes' = marked
             /\ batch' = b
             /\ batchResults' = [n \in NodeIds(ns) |-> PendingResult]
             /\ procIdx' = 0
             /\ spawned' = spawned \o
                    [i \in 1..Len(b) |->
                        SpawnRecord(b[i], "worker", WorkerTools(marked[b[i]]))]
             /\ pc' = "batch"
             /\ UNCHANGED dagReturn

\* Top of the scheduler loop up to the first suspension point.
LoopTop ==
    /\ pc = "loop"
    /\ LET approvalNode == getPendingApproval(nodes)
       IN  IF isDagComplete(nodes) THEN DagReturns(nodes, signalAborted)
           ELSE IF signalAborted THEN DagReturns(nodes, TRUE)
           ELSE IF approvalNode # 0
           THEN IF ~onApprovalNeeded
                THEN \* auto-approve; continue
                     /\ nodes' = updateReadyState(
                            [nodes EXCEPT ![approvalNode].status = "completed"])
                     /\ UNCHANGED <<pc, batch, batchResults, procIdx, spawned, dagReturn>>
                ELSE \* await onApprovalNeeded(...)
                     /\ pc' = "approval"
                     /\ UNCHANGED <<nodes, batch, batchResults, procIdx, spawned, dagReturn>>
           ELSE SelectBatch(nodes)
    /\ UNCHANGED <<teamMaxConcurrency, onApprovalNeeded, maxConcurrency,
                   signalAborted, cur, allResults, rejections>>
    /\ UNCHANGED nonDagVars

\* The approval callback answers.
ApprovalDecision(approved, feedback) ==
    /\ pc = "approval"
    /\ LET approvalNode == getPendingApproval(nodes)
       IN  IF approved
           THEN /\ nodes' = updateReadyState(
                       [nodes EXCEPT ![approvalNode].status = "completed"])
                /\ pc' = "loop"
                /\ UNCHANGED <<batch, batchResults, procIdx, spawned, dagReturn,
                               rejections>>
           ELSE /\ rejections < MaxRejections
                /\ rejections' = rejections + 1
                /\ SelectBatch(
                       [nodes EXCEPT
                           ![approvalNode].status = "ready",
                           ![approvalNode].feedback =
                               IF feedback THEN @ + 1 ELSE @])
    /\ UNCHANGED <<teamMaxConcurrency, onApprovalNeeded, maxConcurrency,
                   signalAborted, cur, allResults>>
    /\ UNCHANGED nonDagVars

\* The run (index in spawned) of the latest child of a kind spawned for n
LastRun(n, kind) ==
    CHOOSE i \in 1..Len(spawned) :
        /\ spawned[i].node = n /\ spawned[i].kind = kind
        /\ \A j \in (i + 1)..Len(spawned) :
              ~(spawned[j].node = n /\ spawned[j].kind = kind)

\* A batch child closes and its runAgent call returns.
ChildClose(n, code, apiError) ==
    /\ pc = "batch"
    /\ ChildRunning(n)
    /\ batchResults' = [batchResults EXCEPT ![n] =
           [result   |-> DagResult(RunAgentResult(code, signalAborted, apiError),
                                   LastRun(n, "worker")),
            finished |-> Resolved + 1]]
    /\ UNCHANGED <<teamMaxConcurrency, onApprovalNeeded, nodes, maxConcurrency,
                   signalAborted, pc, batch, procIdx, cur, allResults, spawned,
                   rejections, dagReturn>>
    /\ UNCHANGED nonDagVars

\* if (reviewResult.exitCode !== 0 || reviewResult.aborted)
ReviewFailedByExitCode(reviewResult) == reviewResult.exitCode # 0
ReviewFailed(reviewResult) == reviewResult.exitCode # 0 \/ reviewResult.aborted

\* if (decision.approved || node.iteration >= maxIter)
ReviewDoneAlways(node, approved) == TRUE
ReviewDone(node, approved) == approved \/ node.iteration >= MaxIter(node)

\* node.iteration++
SameIteration(iteration) == iteration
NextIteration(iteration) == iteration + 1

\* node.result = revisionResult, of a revision run that succeeded
KeepWorkerResult(result, revisionResult) == result
AcceptRevision(result, revisionResult) == revisionResult

\* runReviewCycle, from the top of its while loop to its next suspension
\* point or its return: the node map, the children spawned and the next pc.
ReviewLoopTop(ns, n) ==
    IF ns[n].iteration <= MaxIter(ns[n]) /\ ~signalAborted
    THEN [nodes |-> [ns EXCEPT ![n].status = "reviewing"],
          spawn |-> <<SpawnRecord(n, "review", "review")>>,
          pc    |-> "review"]
    ELSE [nodes |-> ns, spawn |-> <<>>, pc |-> "batch"]

\* Process results: the next result of the resolved batch.
ProcessResult ==
    /\ pc = "batch"
    /\ AllClosed
    /\ procIdx < Len(batch)
    /\ LET n      == batch[procIdx + 1]
           result == batchResults[n].result
           ns     == [nodes EXCEPT ![n].result = result]
           \* node.iteration = 1; node.reviewHistory = []; runReviewCycle(node)
           rv     == ReviewLoopTop(
                         [ns EXCEPT ![n].iteration = 1, ![n].reviewHistory = <<>>], n)
       IN  /\ allResults' = Append(allResults, result)
           /\ procIdx' = procIdx + 1
           /\ IF result.exitCode # 0 \/ result.aborted
              THEN /\ nodes' = [ns EXCEPT ![n].status = "failed"]
                   /\ UNCHANGED <<pc, cur, spawned>>
              ELSE IF ns[n].requiresApproval
              THEN /\ nodes' = [ns EXCEPT ![n].status = "awaiting_approval"]
                   /\ UNCHANGED <<pc, cur, spawned>>
              ELSE IF ns[n].review.present
              THEN /\ nodes' = rv.nodes
                   /\ spawned' = spawned \o rv.spawn
                   /\ pc' = rv.pc
                   /\ cur' = IF rv.pc = "review" THEN n ELSE 0
              ELSE /\ nodes' = [ns EXCEPT ![n].status = "completed"]
                   /\ UNCHANGED <<pc, cur, spawned>>
    /\ UNCHANGED <<teamMaxConcurrency, onApprovalNeeded, maxConcurrency,
                   signalAborted, batch, batchResults, rejections, dagReturn>>
    /\ UNCHANGED nonDagVars

\* The reviewer child closes: runReviewCycle goes on to its decision.
ReviewerClose(code, apiError, approved) ==
    /\ pc = "review"
    /\ LET n            == cur
           reviewResult == DagResult(RunAgentResult(code, signalAborted, apiError),
                                     LastRun(n, "review"))
           entry        == [iteration |-> nodes[n].iteration, approved |-> approved]
           reviewed     == [nodes EXCEPT ![n].reviewHistory = Append(@, entry)]
       IN  /\ allResults' = Append(allResults, reviewResult)
           /\ IF ReviewFailed(reviewResult)
              THEN \* review failed: accept the worker's current output
                   /\ nodes' = [nodes EXCEPT ![n].status = "completed"]
                   /\ pc' = "batch" /\ cur' = 0
                   /\ UNCHANGED spawned
              ELSE IF ReviewDone(nodes[n], approved)
              THEN /\ nodes' = [reviewed EXCEPT ![n].status = "completed"]
                   /\ pc' = "batch" /\ cur' = 0
                   /\ UNCHANGED spawned
              ELSE \* revision needed: re-run the worker
                   /\ nodes' = [reviewed EXCEPT ![n].iteration = NextIteration(@),
                                                ![n].status = "revising"]
                   /\ spawned' = Append(spawned, SpawnRecord(n, "revision", "member"))
                   /\ pc' = "revision"
                   /\ UNCHANGED cur
    /\ UNCHANGED <<teamMaxConcurrency, onApprovalNeeded, maxConcurrency,
                   signalAborted, batch, batchResults, procIdx, rejections,
                   dagReturn>>
    /\ UNCHANGED nonDagVars

\* The revision child closes.
RevisionClose(code, apiError) ==
    /\ pc = "revision"
    /\ LET n              == cur
           revisionResult == DagResult(RunAgentResult(code, signalAborted, apiError),
                                       LastRun(n, "revision"))
           failed         == [nodes EXCEPT ![n].result = revisionResult,
                                           ![n].status = "failed"]
           ns             == [nodes EXCEPT
                                 ![n].result = AcceptRevision(@, revisionResult)]
           rv             == ReviewLoopTop(ns, n)
       IN  /\ allResults' = Append(allResults, revisionResult)
           /\ IF revisionResult.exitCode # 0 \/ revisionResult.aborted
              THEN /\ nodes' = failed
                   /\ pc' = "batch" /\ cur' = 0
                   /\ UNCHANGED spawned
              ELSE /\ nodes' = rv.nodes
                   /\ spawned' = spawned \o rv.spawn
                   /\ pc' = rv.pc
                   /\ cur' = IF rv.pc = "review" THEN n ELSE 0
    /\ UNCHANGED <<teamMaxConcurrency, onApprovalNeeded, maxConcurrency,
                   signalAborted, batch, batchResults, procIdx, rejections,
                   dagReturn>>
    /\ UNCHANGED nonDagVars

\* the loop that leaves after the first result
FirstResultProcessed == procIdx >= 1

\* for (const { taskId, result } of batchResults): every result has been
\* processed
BatchProcessed == procIdx = Len(batch)

\* All results of the batch are processed: update readiness, next iteration.
FinishBatch ==
    /\ pc = "batch"
    /\ AllClosed
    /\ BatchProcessed
    /\ nodes' = updateReadyState(nodes)
    /\ pc' = "loop"
    /\ UNCHANGED <<teamMaxConcurrency, onApprovalNeeded, maxConcurrency,
                   signalAborted, batch, batchResults, procIdx, cur, allResults,
                   spawned, rejections, dagReturn>>
    /\ UNCHANGED nonDagVars

\* The caller's cancellation token fires.  It can fire only while the event
\* loop is idle: before the call, or while executeDag awaits a child or the
\* approval callback.
SignalAbort ==
    /\ ~signalAborted
    /\ \/ pc \in {"start", "approval", "review", "revision"}
       \/ pc = "batch" /\ ~AllClosed
    /\ signalAborted' = TRUE
    /\ UNCHANGED <<teamMaxConcurrency, onApprovalNeeded, nodes, maxConcurrency,
                   pc, batch, batchResults, procIdx, cur, allResults, spawned,
                   rejections, dagReturn>>
    /\ UNCHANGED nonDagVars

DagNext ==
    \/ TeamExecute
    \/ LoopTop
    \/ \E approved \in BOOLEAN, feedback \in BOOLEAN : ApprovalDecision(approved, feedback)
    \/ \E n \in NodeIds(nodes), code \in ExitCodes, apiError \in BOOLEAN :
          ChildClose(n, code, apiError)
    \/ ProcessResult
    \/ \E code \in ExitCodes, apiError \in BOOLEAN, approved \in BOOLEAN :
          ReviewerClose(code, apiError, approved)
    \/ \E code \in ExitCodes, apiError \in BOOLEAN : RevisionClose(code, apiError)
    \/ FinishBatch
    \/ SignalAbort

Init == DagInit /\ ra = Idle /\ pool = Idle /\ race = Idle /\ disp = Idle /\ ExtIdle
Next == DagNext
\* execute in team mode and executeDag, with and without an approval callback
Spec == Init /\ [][Next]_vars

(***************************************************************************)
(* Properties of executeDag.                                               *)
(***************************************************************************)
RECURSIVE AncestorsFrom(_, _, _)
AncestorsFrom(ns, S, k) ==
    IF k = 0 THEN S
    ELSE AncestorsFrom(ns, S \cup UNION {ns[x].dependsOn : x \in S}, k - 1)
\* the transitive dependencies of n
Ancestors(ns, n) == AncestorsFrom(ns, ns[n].dependsOn, Len(ns))

\* C2: a node's status changes to running only at a moment when every one of
\* its direct dependencies is completed; so no node with a failed ancestor
\* becomes running, and no dependent of a requiresApproval task becomes
\* running while that task is awaiting approval or was rejected (ready again).
C2_RunningOnlyAfterDeps ==
    [][\A n \in NodeIds(nodes) :
          (nodes[n].status # "running" /\ nodes'[n].status = "running") =>
              /\ \A d \in nodes[n].dependsOn :
                    /\ nodes[d].status = "completed"
                    /\ nodes'[d].status = "completed"
              /\ \A a \in Ancestors(nodes, n) : nodes'[a].status # "failed"
              /\ \A d \in nodes[n].dependsOn :
                    nodes[d].requiresApproval =>
                        nodes'[d].status \notin {"awaiting_approval", "ready", "running"}
      ]_vars

\* a dependent of an approved requiresApproval task is running
C2_Witness ==
    \E n \in NodeIds(nodes) :
        /\ nodes[n].status = "running"
        /\ \E d \in nodes[n].dependsOn :
              nodes[d].requiresApproval /\ nodes[d].status = "completed"

\* C3: in a run that is not cancelled, a node with a failed or blocked direct
\* dependency ends blocked, so the transitive dependents of a failed node end
\* blocked, not pending.
C3_FailedOrBlockedDepBlocks ==
    (dagReturn.returned /\ ~signalAborted) =>
        \A n \in NodeIds(nodes) :
            (\E d \in nodes[n].dependsOn : nodes[d].status \in {"failed", "blocked"})
                => nodes[n].status = "blocked"

\* C4: whatever team.maxConcurrency is, the concurrency executeDag uses is in
\* 1..8 and every batch taken from a non-empty ready list has 1 to 8 nodes.
C4_ConcurrencyClamped ==
    pc # "start" =>
        /\ maxConcurrency \in 1..MAX_CONCURRENCY
        /\ (pc = "batch" => Len(batch) \in 1..MAX_CONCURRENCY)

\* C9: once the token has fired no worker, reviewer or revision child is
\* spawned any more, and the result executeDag returns after that has
\* aborted = true; also when the token fires while the approval callback is
\* pending.  (Stated for the runs with a concurrency of at least 1.)
C9_NoSpawnAfterAbort ==
    maxConcurrency >= 1 =>
        /\ \A i \in 1..Len(spawned) : ~spawned[i].tokenFired
        /\ (dagReturn.returned /\ signalAborted) => dagReturn.aborted

(***************************************************************************)
(* runAgent (executor.ts): one call and its child process.                 *)
(*                                                                         *)
(* ra.proc is the child as the operating system sees it: "alive", "dying"  *)
(* (a signal that terminates it has been delivered), "exited", or          *)
(* "spawnFailed" (spawn() could not start it; the 'error' event is due).   *)
(* ra.killed is proc.killed of Node's ChildProcess: it becomes true when   *)
(* kill() has delivered a signal, whether or not the child dies of it.     *)
(***************************************************************************)
\* executeDag is not running
DagIdle ==
    /\ teamMaxConcurrency = 0
    /\ onApprovalNeeded = FALSE
    /\ nodes = <<>>
    /\ maxConcurrency = 0
    /\ signalAborted = FALSE
    /\ pc = "idle"
    /\ batch = <<>>
    /\ batchResults = <<>>
    /\ procIdx = 0
    /\ cur = 0
    /\ allResults = <<>>
    /\ spawned = <<>>
    /\ rejections = 0
    /\ dagReturn = [returned |-> FALSE, aborted |-> FALSE]

\* the child reports at most MaxApiErrors API errors
MaxApiErrors == 2

\* errorMsg: the number of the message_end event whose errorMessage is the
\* error of the result (0: the error is not an API error)
NoAgentResult == [exitCode |-> 0, aborted |-> FALSE, error |-> "unset", errorMsg |-> 0]

\* The calls checked: with or without a token, which may have fired before
\* the call; a child that dies of SIGTERM or ignores it; a failing spawn.
AgentInit ==
    \E hasSignal \in BOOLEAN, fired \in BOOLEAN, ignoresTerm \in BOOLEAN,
       spawnFails \in BOOLEAN :
        /\ fired => hasSignal
        /\ ra = [pc             |-> "start",
                 hasSignal      |-> hasSignal,
                 signalAborted  |-> fired,
                 ignoresTerm    |-> ignoresTerm,
                 spawnFails     |-> spawnFails,
                 proc           |-> "none",
                 killed         |-> FALSE,
                 sigterm        |-> FALSE,
                 sigkill        |-> FALSE,
                 listener       |-> FALSE,
                 timer          |-> "none",
                 wasAborted     |-> FALSE,
                 progressStatus |-> "running",
                 stderr         |-> FALSE,
                 apiError       |-> 0,
                 exit           |-> "none",
                 finalStatus    |-> "none",
                 lateEmits      |-> 0,
                 result         |-> NoAgentResult]

\* proc.kill(sig): delivers the signal to a child that has not exited and
\* sets proc.killed; returns false and changes nothing otherwise.
ProcKill(r, sig) ==
    IF r.proc \in {"alive", "dying"}
    THEN [r EXCEPT !.killed  = TRUE,
                   !.sigterm = @ \/ sig = "SIGTERM",
                   !.sigkill = @ \/ sig = "SIGKILL",
                   !.proc    = IF sig = "SIGKILL" \/ ~r.ignoresTerm
                               THEN "dying" ELSE @]
    ELSE r

\* killProc: mark aborted, emit progress, SIGTERM, arm the 5 s timer
killProc(r) ==
    LET marked == [r EXCEPT !.wasAborted = TRUE,
                            !.progressStatus = "aborted",
                            !.lateEmits = IF r.pc = "returned" THEN @ + 1 ELSE @,
                            !.timer = "armed"]
    IN  ProcKill(marked, "SIGTERM")

\* runAgent from its call to the await of the child's exit: spawn, then look
\* at the token.
RunAgentStart ==
    /\ ra.pc = "start"
    /\ LET spawnedProc == [ra EXCEPT !.pc = "awaiting",
                                     !.proc = IF ra.spawnFails THEN "spawnFailed"
                                                               ELSE "alive"]
       IN  ra' = IF ~ra.hasSignal THEN spawnedProc
                 ELSE IF ra.signalAborted THEN killProc(spawnedProc)
                 ELSE [spawnedProc EXCEPT !.listener = TRUE]
    /\ UNCHANGED <<extVars, dagVars, pool, race, disp>>

\* The token fires; the listener (once: true, never removed) runs killProc.
AgentAbort ==
    /\ ra.pc \in {"awaiting", "returned"}
    /\ ra.hasSignal /\ ~ra.signalAborted
    /\ LET fired == [ra EXCEPT !.signalAborted = TRUE, !.listener = FALSE]
       IN  ra' = IF ra.listener THEN killProc(fired) ELSE fired
    /\ UNCHANGED <<extVars, dagVars, pool, race, disp>>

\* The 5 s timer of killProc fires.
KillTimer ==
    /\ ra.timer = "armed"
    /\ LET fired == [ra EXCEPT !.timer = "fired"]
       IN  ra' = IF ~ra.killed THEN ProcKill(fired, "SIGKILL") ELSE fired
    /\ UNCHANGED <<extVars, dagVars, pool, race, disp>>

\* The child writes to stderr, or reports an API error in a message_end event
\* (apiError holds the number of the last such event, 0 when there is none).
ChildOutput(what) ==
    /\ ra.pc = "awaiting" /\ ra.proc = "alive"
    /\ \/ what = "stderr" /\ ~ra.stderr /\ ra' = [ra EXCEPT !.stderr = TRUE]
       \/ what = "apiError" /\ ra.apiError < MaxApiErrors
              /\ ra' = [ra EXCEPT !.apiError = @ + 1]
    /\ UNCHANGED <<extVars, dagVars, pool, race, disp>>

\* the error text that never quotes stderr
ExitCodeError(r) == "exitcode"

\* stderr || `Exit code: ${exitCode}`
ErrorOfExit(r) == IF r.stderr THEN "stderr" ELSE "exitcode"

\* runAgent after the await: the TaskResult and the final progress status.
AgentReturn(r, code) ==
    LET base   == RunAgentResult(code, r.progressStatus = "aborted", r.apiError > 0)
        result == [exitCode |-> base.exitCode,
                   aborted  |-> base.aborted,
                   error    |-> IF base.error = "exit" THEN ErrorOfExit(r)
                                ELSE base.error,
                   errorMsg |-> IF base.error = "api" THEN r.apiError ELSE 0]
        status == IF result.aborted THEN "aborted"
                  ELSE IF result.exitCode = 0 THEN "completed"
                  ELSE "failed"
    IN  [r EXCEPT !.pc = "returned",
                  !.result = result,
                  !.progressStatus = status,
                  \* the status of the last onProgress call of runAgent itself
                  !.finalStatus = status]

\* 'close': the child has exited by itself, with code 0 or 1 (also a child
\* that handles SIGTERM and then exits).
AgentChildClose(code) ==
    /\ ra.pc = "awaiting"
    /\ ra.proc = "alive"
    /\ ra' = AgentReturn([ra EXCEPT !.proc = "exited",
                                    !.exit = IF code = 0 THEN "code0" ELSE "code1"],
                         code)
    /\ UNCHANGED <<extVars, dagVars, pool, race, disp>>

\* The child is terminated by a signal that runAgent did not send (the
\* operating system, an operator).
ChildSignalled ==
    /\ ra.pc = "awaiting"
    /\ ra.proc = "alive"
    /\ ra' = [ra EXCEPT !.proc = "dying"]
    /\ UNCHANGED <<extVars, dagVars, pool, race, disp>>

\* 'close': a child terminated by a signal has exited; its code is null.
DyingChildClose ==
    /\ ra.pc = "awaiting"
    /\ ra.proc = "dying"
    /\ ra' = AgentReturn([ra EXCEPT !.proc = "exited", !.exit = "signal"], NullCode)
    /\ UNCHANGED <<extVars, dagVars, pool, race, disp>>

\* 'error': the child could not be spawned; resolve(1)
ProcError ==
    /\ ra.pc = "awaiting"
    /\ ra.proc = "spawnFailed"
    /\ ra' = AgentReturn([ra EXCEPT !.proc = "exited", !.exit = "spawnError"], 1)
    /\ UNCHANGED <<extVars, dagVars, pool, race, disp>>

AgentNext ==
    \/ RunAgentStart
    \/ AgentAbort
    \/ KillTimer
    \/ \E what \in {"stderr", "apiError"} : ChildOutput(what)
    \/ \E code \in {0, 1} : AgentChildClose(code)
    \/ ChildSignalled
    \/ DyingChildClose
    \/ ProcError

SpecAgentInit == AgentInit /\ DagIdle /\ pool = Idle /\ race = Idle /\ disp = Idle /\ ExtIdle

\* one call of runAgent
SpecAgent == SpecAgentInit /\ [][AgentNext]_vars

\* The event loop runs a due timer and delivers the exit of a child; a child
\* that has not been terminated may run for ever.
SpecAgentFair ==
    /\ SpecAgent
    /\ WF_vars(RunAgentStart)
    /\ WF_vars(KillTimer)
    /\ WF_vars(DyingChildClose)
    /\ WF_vars(ProcError)

\* C10: when the token fires while the child is alive the child is sent
\* SIGTERM and, if it has not exited when the 5 s timer fires, SIGKILL; hence
\* a cancelled runAgent eventually returns, also for a child ignoring SIGTERM.
C10_CancelledAgentReturns ==
    /\ [](ra.wasAborted /\ ra.proc = "alive" /\ ra.timer = "fired" => ra.sigkill)
    /\ (ra.pc = "awaiting" /\ ra.wasAborted) ~> (ra.pc = "returned")

(***************************************************************************)
(* Parallel mode of execute and the bounded worker pool.                   *)
(*                                                                         *)
(* mapWithConcurrencyLimit (parallel.ts) follows its contract: it starts a *)
(* worker only while fewer than K are in flight and the token has not      *)
(* fired, stores what worker(items[i], i) returns at position i, and       *)
(* returns when no started worker is outstanding.  Items are numbered      *)
(* from 1 here (index i of the code is i - 1).  allResults is read only    *)
(* by the substitution of cross-references and is kept for the calls that  *)
(* have them; overtaken records that a worker completed before one that    *)
(* was started earlier.                                                    *)
(***************************************************************************)
\* the number of tasks ranges over 1..MaxTasks, and MAX_CONCURRENCY + 1
MaxTasks == 3

Min3(a, b, c) == Min(a, Min(b, c))

\* the K that replaces ParallelK when the cap MAX_CONCURRENCY is left out
ParallelKUncapped(requested, n, hasCrossRefs) ==
    IF hasCrossRefs THEN 1 ELSE Min(OrDefault(requested, DEFAULT_CONCURRENCY), n)

\* execute, parallel mode: the K handed to mapWithConcurrencyLimit
ParallelK(requested, n, hasCrossRefs) ==
    IF hasCrossRefs THEN 1
    ELSE Min3(OrDefault(requested, DEFAULT_CONCURRENCY), MAX_CONCURRENCY, n)

\* the position of a parallelResults entry no worker has filled
Undefined == [id |-> 0, exitCode |-> 0, aborted |-> FALSE, error |-> "undefined"]

\* the id that replaces WorkerTaskId when tasks are numbered as they finish
WorkerTaskIdByCompletion(index, done) == done + 1

\* generateTaskId(index, ...) of the worker callback: the id of the TaskResult
WorkerTaskId(index, done) == index

\* The calls checked: 1..MaxTasks tasks with any params.maxConcurrency and
\* any children; and MAX_CONCURRENCY + 1 tasks, more than the cap admits,
\* whose children all succeed.  params.maxConcurrency is any number, as
\* team.maxConcurrency is.
PoolInit ==
    \E n \in 1..MaxTasks \cup {MAX_CONCURRENCY + 1},
       requested \in TeamMaxConcurrencyValues, hasCrossRefs \in BOOLEAN :
        /\ n > MaxTasks => requested = MAX_CONCURRENCY + 1 /\ ~hasCrossRefs
        /\ pool = [pc            |-> "start",
                   n             |-> n,
                   requested     |-> requested,
                   hasCrossRefs  |-> hasCrossRefs,
                   kids          |-> IF n > MaxTasks THEN "ok" ELSE "any",
                   K             |-> 0,
                   next          |-> 0,
                   inflight      |-> {},
                   results       |-> [i \in 1..n |-> Undefined],
                   child         |-> [i \in 1..n |-> Undefined],
                   allResults    |-> <<>>,
                   overtaken     |-> FALSE,
                   progress      |-> [i \in 1..n |-> "pending"],
                   signalAborted |-> FALSE,
                   aborted       |-> FALSE,
                   successCount  |-> 0,
                   total         |-> 0]

\* mapWithConcurrencyLimit starts the workers it may start: each one marks
\* its progress running and enters runAgent, which spawns the child.
StartWorkers(p) ==
    LET free  == p.K - Cardinality(p.inflight)
        count == IF p.signalAborted THEN 0 ELSE Max(0, Min(free, p.n - p.next))
        new   == (p.next + 1)..(p.next + count)
    IN  [p EXCEPT !.next     = @ + count,
                  !.inflight = @ \cup new,
                  !.progress = [i \in 1..p.n |-> IF i \in new THEN "running" ELSE @[i]]]

\* mapWithConcurrencyLimit stores what worker i returned at position i
PoolStore(p, i, result) ==
    [p EXCEPT !.inflight = @ \ {i}, !.results[i] = result]

\* mapWithConcurrencyLimit returns when no started worker is outstanding
PoolSettled(p) == p.inflight = {}

\* the aborted flag mapWithConcurrencyLimit returns
PoolAborted(p) == p.signalAborted

\* execute after mapWithConcurrencyLimit has returned: filter the undefined
\* positions and count the successes.
PoolReturn(p) ==
    IF ~PoolSettled(p) THEN p
    ELSE LET defined == {i \in 1..p.n : p.results[i] # Undefined}
         IN  [p EXCEPT !.pc = "returned",
                       !.aborted = PoolAborted(p),
                       !.total = Cardinality(defined),
                       !.successCount =
                           Cardinality({i \in defined : p.results[i].exitCode = 0})]

\* execute, parallel mode, up to the await of mapWithConcurrencyLimit
ParallelExecute ==
    /\ pool.pc = "start"
    /\ LET K == ParallelK(pool.requested, pool.n, pool.hasCrossRefs)
       IN  pool' = PoolReturn(StartWorkers([pool EXCEPT !.pc = "running", !.K = K]))
    /\ UNCHANGED <<extVars, dagVars, ra, race, disp>>

\* The child of worker i closes: runAgent returns, the worker sets the final
\* progress status, pushes the result and returns it; the pool stores it at
\* position i and goes on.
PoolChildClose(i, code, apiError) ==
    /\ pool.pc = "running"
    /\ i \in pool.inflight
    /\ pool.kids = "ok" => code = 0 /\ ~apiError
    /\ LET r      == RunAgentResult(code, pool.signalAborted, apiError)
           done   == Cardinality({j \in 1..pool.n : pool.results[j] # Undefined})
           result == [id |-> WorkerTaskId(i, done), exitCode |-> r.exitCode,
                      aborted |-> r.aborted, error |-> r.error]
           closed == [PoolStore(pool, i, result) EXCEPT
                          !.child[i]    = [result EXCEPT !.id = i],
                          !.progress[i] = IF r.exitCode = 0 THEN "completed" ELSE "failed",
                          !.allResults  = IF pool.hasCrossRefs THEN Append(@, i) ELSE @,
                          !.overtaken   = @ \/ \E j \in pool.inflight : j < i]
       IN  pool' = PoolReturn(StartWorkers(closed))
    /\ UNCHANGED <<extVars, dagVars, ra, race, disp>>

\* The token fires: killProc of every runAgent in flight marks its progress.
PoolAbort ==
    /\ pool.pc \in {"start", "running"}
    /\ ~pool.signalAborted
    /\ pool' = [pool EXCEPT
                   !.signalAborted = TRUE,
                   !.progress = [i \in 1..pool.n |->
                                    IF i \in pool.inflight THEN "aborted" ELSE @[i]]]
    /\ UNCHANGED <<extVars, dagVars, ra, race, disp>>

PoolNext ==
    \/ ParallelExecute
    \/ \E i \in 1..pool.n, code \in ExitCodes, apiError \in BOOLEAN :
          PoolChildClose(i, code, apiError)
    \/ PoolAbort

SpecPoolInit == PoolInit /\ DagIdle /\ ra = Idle /\ race = Idle /\ disp = Idle /\ ExtIdle

\* one call of execute in parallel mode
SpecPool == SpecPoolInit /\ [][PoolNext]_vars

\* C5: while the token has not fired, never more than min(K, 8, N) workers of
\* mapWithConcurrencyLimit(items, K, worker, token) are in flight (none when
\* that minimum is below 1).
C5_InFlightBounded ==
    (pool.pc # "idle" /\ ~pool.signalAborted) =>
        Cardinality(pool.inflight) <= Max(0, Min3(pool.K, MAX_CONCURRENCY, pool.n))

\* the cap MAX_CONCURRENCY is what limits the workers in flight
C5_Witness ==
    /\ pool.pc = "running"
    /\ pool.n > MAX_CONCURRENCY
    /\ Cardinality(pool.inflight) = MAX_CONCURRENCY
    /\ pool.next = pool.n

MaxRacers == 3

\* the run wrapper that reports every result as a success
WrapperNeverThrows(result) == FALSE

\* run wrapper of a racer: if (result.exitCode !== 0) throw ...
WrapperThrows(result) == result.exitCode # 0

NoRaceResult == [aborted |-> FALSE, winner |-> 0]

\* the response that ignores the aborted key of the race result
RaceResponseAsWinner(raceResult) ==
    [text |-> "output", isError |-> FALSE, winner |-> raceResult.winner]

\* execute, race mode, after raceWithAbort: "aborted" in raceResult
RaceResponse(raceResult) ==
    IF raceResult.aborted
    THEN [text |-> "Race aborted", isError |-> TRUE, winner |-> 0]
    ELSE [text |-> "output", isError |-> FALSE, winner |-> raceResult.winner]

RaceInit ==
    \E m \in 1..MaxRacers :
        race = [pc            |-> "start",
                m             |-> m,
                racer         |-> [i \in 1..m |-> "pending"],
                tokenFired    |-> [i \in 1..m |-> FALSE],
                results       |-> <<>>,
                progress      |-> [i \in 1..m |-> "pending"],
                callerAborted |-> FALSE,
                raceResult    |-> NoRaceResult,
                response      |-> [text |-> "none", isError |-> FALSE, winner |-> 0]]

\* raceWithAbort settles: the dispatcher builds its response
RaceSettle(r, raceResult) ==
    [r EXCEPT !.pc = "returned",
              !.raceResult = raceResult,
              !.response = RaceResponse(raceResult)]

\* every derived token except that of the winner fires
FireDerived(r, winner) ==
    [r EXCEPT !.tokenFired = [i \in 1..r.m |-> @[i] \/ i # winner],
              !.progress = [i \in 1..r.m |->
                               IF i # winner /\ r.racer[i] = "running"
                               THEN "aborted" ELSE @[i]]]

\* execute, race mode: raceWithAbort launches all racers together
RaceExecute ==
    /\ race.pc = "start"
    /\ race' = [race EXCEPT !.pc = "racing",
                            !.racer = [i \in 1..race.m |-> "running"],
                            !.progress = [i \in 1..race.m |-> "running"]]
    /\ UNCHANGED <<extVars, dagVars, ra, pool, disp>>

\* The child of racer i closes: runAgent returns, the wrapper records the
\* result and returns it or throws; raceWithAbort takes note.
RacerClose(i, code, apiError) ==
    /\ race.pc \in {"racing", "returned"}
    /\ race.racer[i] = "running"
    /\ LET r      == RunAgentResult(code, race.tokenFired[i], apiError)
           threw  == WrapperThrows(r)
           closed == [race EXCEPT
                         !.racer[i]    = IF threw THEN "threw" ELSE "returned",
                         !.progress[i] = IF r.exitCode = 0 THEN "completed" ELSE "failed",
                         !.results     = Append(@, [id |-> i, exitCode |-> r.exitCode,
                                                    aborted |-> r.aborted,
                                                    error |-> r.error])]
       IN  race' = IF race.pc = "returned" THEN closed
                   ELSE IF ~threw
                   THEN RaceSettle(FireDerived(closed, i),
                                   [aborted |-> FALSE, winner |-> i])
                   ELSE IF \A j \in 1..race.m : closed.racer[j] = "threw"
                   THEN RaceSettle(closed, [aborted |-> TRUE, winner |-> 0])
                   ELSE closed
    /\ UNCHANGED <<extVars, dagVars, ra, pool, disp>>

\* The caller's token fires during the race.
RaceAbort ==
    /\ race.pc = "racing"
    /\ race' = RaceSettle(FireDerived([race EXCEPT !.callerAborted = TRUE], 0),
                          [aborted |-> TRUE, winner |-> 0])
    /\ UNCHANGED <<extVars, dagVars, ra, pool, disp>>

RaceNext ==
    \/ RaceExecute
    \/ \E i \in 1..race.m, code \in ExitCodes, apiError \in BOOLEAN :
          RacerClose(i, code, apiError)
    \/ RaceAbort

SpecRaceInit == RaceInit /\ DagIdle /\ ra = Idle /\ pool = Idle /\ disp = Idle /\ ExtIdle

\* one call of execute in race mode
SpecRace == SpecRaceInit /\ [][RaceNext]_vars

\* the successes among the results recorded so far, by position
RaceSuccesses ==
    {k \in 1..Len(race.results) :
        race.results[k].exitCode = 0 /\ race.results[k].error = "none"}

\* C7: the winner returned is the first racer, in completion order, whose
\* TaskResult is non-error with exit code 0; failures before it do not end
\* the race, and every racer outstanding when the winner returns has its
\* derived token fired.
C7_FirstSuccessWins ==
    /\ race.pc = "returned" /\ ~race.raceResult.aborted =>
          /\ RaceSuccesses # {}
          /\ \E k \in RaceSuccesses :
                /\ \A j \in RaceSuccesses : k <= j
                /\ race.results[k].id = race.raceResult.winner
                /\ race.response.winner = race.results[k].id
          /\ \A i \in 1..race.m :
                race.racer[i] = "running" => race.tokenFired[i]
    /\ race.pc = "racing" /\ ~race.callerAborted =>
          /\ RaceSuccesses = {}
          /\ \E i \in 1..race.m : race.racer[i] = "running"

\* a racer won after another had failed and while a third was still running
C7_Witness ==
    /\ race.pc = "returned" /\ race.raceResult.winner # 0
    /\ Len(race.results) = 2
    /\ race.results[1].exitCode # 0
    /\ \E i \in 1..race.m : race.racer[i] = "running" /\ race.tokenFired[i]

MaxBuildTasks == 3

\* the roles of the members map
Members == {"dev"}
RoleValues == {"undefined", "", "dev", "ghost"}

\* a string in a condition: absent and "" are falsy
TruthyRole(role) == role \notin {"undefined", ""}

SetToSeq(S) ==
    LET RECURSIVE Asc(_)
        Asc(T) == IF T = {} THEN <<>>
                  ELSE LET m == CHOOSE x \in T : \A y \in T : x <= y
                       IN  <<m>> \o Asc(T \ {m})
    IN  Asc(S)

BuildTask(id, depends, assignee, reviewAssignee) ==
    [id |-> id, depends |-> depends, assignee |-> assignee,
     reviewAssignee |-> reviewAssignee]

\* the tasks 1..n of a dependency graph, with known members
GraphTasks(n, deps) ==
    [i \in 1..n |-> BuildTask(i, SetToSeq(deps[i]), "dev", "undefined")]

\* the teams of two tasks with a repeated id, an unknown or a repeated
\* dependency and every kind of assignee
DefectInputs ==
    { << BuildTask(1, <<>>, assignee, reviewAssignee),
         BuildTask(id2, depends2, "dev", "undefined") >> :
        assignee \in RoleValues, reviewAssignee \in RoleValues,
        id2 \in {1, 2},
        depends2 \in {<<>>, <<1>>, <<0>>, <<1, 1>>, <<2>>} }

\* "Check for duplicate IDs"
HasDuplicateId(tasks) ==
    \E i, j \in 1..Len(tasks) : i < j /\ tasks[i].id = tasks[j].id

TaskIds(tasks) == {tasks[i].id : i \in 1..Len(tasks)}
TaskOf(tasks, id) == tasks[CHOOSE i \in 1..Len(tasks) : tasks[i].id = id]

\* the edges (id, depId) in the order the loops of buildDag meet them
RECURSIVE DependencyEdges(_)
DependencyEdges(tasks) ==
    IF tasks = <<>> THEN <<>>
    ELSE [k \in 1..Len(Head(tasks).depends) |->
              [id |-> Head(tasks).id, depId |-> Head(tasks).depends[k]]]
         \o DependencyEdges(Tail(tasks))

\* "Validate dependencies": some depId is not a node
HasUnknownDependency(tasks) ==
    \E i \in 1..Len(tasks) : \E k \in 1..Len(tasks[i].depends) :
        tasks[i].depends[k] \notin TaskIds(tasks)

\* the validation that leaves out the assignee of the review
HasUnknownTaskAssignee(tasks, members) ==
    \E i \in 1..Len(tasks) :
        TruthyRole(tasks[i].assignee) /\ tasks[i].assignee \notin members

\* "Validate assignees": if (assignee && !members.has(assignee))
HasUnknownAssignee(tasks, members) ==
    \E i \in 1..Len(tasks) :
        \/ TruthyRole(tasks[i].assignee) /\ tasks[i].assignee \notin members
        \/ TruthyRole(tasks[i].reviewAssignee) /\ tasks[i].reviewAssignee \notin members

\* "Create nodes" and "build reverse edges": depNode.dependedBy.push(id)
BuildNodes(tasks) ==
    LET edges == DependencyEdges(tasks)
    IN  [id \in TaskIds(tasks) |->
            [dependsOn  |-> TaskOf(tasks, id).depends,
             dependedBy |-> LET to == SelectSeq(edges, LAMBDA e : e.depId = id)
                            IN  [k \in 1..Len(to) |-> to[k].id],
             status     |-> "pending"]]

\* for (const depId of node.dependedBy): decrement and queue at zero
RECURSIVE KahnRelease(_, _, _)
KahnRelease(inDegree, queue, dependedBy) ==
    IF dependedBy = <<>> THEN [inDegree |-> inDegree, queue |-> queue]
    ELSE LET depId     == Head(dependedBy)
             newDegree == inDegree[depId] - 1
         IN  KahnRelease([inDegree EXCEPT ![depId] = newDegree],
                         IF newDegree = 0 THEN Append(queue, depId) ELSE queue,
                         Tail(dependedBy))

\* while (queue.length > 0)
RECURSIVE KahnLoop(_, _, _, _)
KahnLoop(ns, inDegree, queue, visited) ==
    IF queue = <<>> THEN [inDegree |-> inDegree, visited |-> visited]
    ELSE LET released == KahnRelease(inDegree, Tail(queue), ns[Head(queue)].dependedBy)
         IN  KahnLoop(ns, released.inDegree, released.queue, visited + 1)

\* detectCycles: the ids of the error message, {} when it does not throw
detectCycles(ns, order) ==
    LET inDegree == [id \in DOMAIN ns |-> Len(ns[id].dependsOn)]
        queue    == SelectSeq(order, LAMBDA id : inDegree[id] = 0)
        done     == KahnLoop(ns, inDegree, queue, 0)
    IN  IF done.visited < Cardinality(DOMAIN ns)
        THEN [throws |-> TRUE, inCycle |-> {id \in DOMAIN ns : done.inDegree[id] > 0}]
        ELSE [throws |-> FALSE, inCycle |-> {}]

BuildError(error, inCycle) ==
    [ok |-> FALSE, error |-> error, inCycle |-> inCycle, nodes |-> <<>>]

\* buildDag(tasks, members), up to updateReadyState
buildDag(tasks, members) ==
    IF HasDuplicateId(tasks) THEN BuildError("Duplicate task ID", {})
    ELSE IF HasUnknownDependency(tasks) THEN BuildError("depends on unknown task", {})
    ELSE IF HasUnknownAssignee(tasks, members)
    THEN BuildError("assigned to unknown member", {})
    ELSE LET ns     == BuildNodes(tasks)
             cycles == detectCycles(ns, [i \in 1..Len(tasks) |-> tasks[i].id])
         IN  IF cycles.throws
             THEN BuildError("Dependency cycle detected", cycles.inCycle)
             ELSE [ok |-> TRUE, error |-> "none", inCycle |-> {}, nodes |-> ns]

BuildStart(tasks) ==
    [pc |-> "start", tasks |-> tasks, result |-> BuildError("none", {})]

\* every dependency graph on tasks 1..n, n <= MaxBuildTasks, or a team of
\* DefectInputs
BuildInit ==
    \/ \E n \in 1..MaxBuildTasks :
           \E deps \in [1..n -> SUBSET (1..n)] : fn = BuildStart(GraphTasks(n, deps))
    \/ \E tasks \in DefectInputs : fn = BuildStart(tasks)

\* the call of buildDag
BuildDagCall ==
    /\ fn.pc = "start"
    /\ fn' = [fn EXCEPT !.pc = "returned",
                        !.result = buildDag(fn.tasks, Members)]
    /\ UNCHANGED <<dagVars, ra, pool, race, disp, chain>>

SpecBuildInit ==
    /\ BuildInit /\ DagIdle
    /\ ra = Idle /\ pool = Idle /\ race = Idle /\ disp = Idle /\ chain = Idle

\* one call of buildDag
SpecBuild == SpecBuildInit /\ [][BuildDagCall]_vars

(***************************************************************************)
(* Properties of buildDag.                                                 *)
(***************************************************************************)
SeqElems(q) == {q[k] : k \in 1..Len(q)}
Occurrences(q, x) == Cardinality({k \in 1..Len(q) : q[k] = x})

\* the ids named by the depends of the tasks with this id
DirectDeps(tasks, id) ==
    UNION {SeqElems(tasks[i].depends) : i \in {j \in 1..Len(tasks) : tasks[j].id = id}}

\* the ids reached from a set of ids along depends, the set included
RECURSIVE DependsClosure(_, _)
DependsClosure(tasks, ids) ==
    LET next == ids \cup UNION {DirectDeps(tasks, id) : id \in ids}
    IN  IF next = ids THEN ids ELSE DependsClosure(tasks, next)

\* id depends on itself, directly or through other tasks
OnCycle(tasks, id) == id \in DependsClosure(tasks, DirectDeps(tasks, id))

\* the conditions of the claim, but for the assignees
ValidGraph(tasks) ==
    /\ \A i, j \in 1..Len(tasks) : i # j => tasks[i].id # tasks[j].id
    /\ \A i \in 1..Len(tasks) : SeqElems(tasks[i].depends) \subseteq TaskIds(tasks)
    /\ \A i \in 1..Len(tasks) : ~OnCycle(tasks, tasks[i].id)

\* dependedBy is the reverse of dependsOn, entry for entry
IsReverse(ns) ==
    \A a \in DOMAIN ns, b \in DOMAIN ns :
        Occurrences(ns[a].dependedBy, b) = Occurrences(ns[b].dependsOn, a)

C22_ListedTasksOnCycle ==
    (fn.pc = "returned" /\ fn.result.error = "Dependency cycle detected") =>
        \A id \in fn.result.inCycle : OnCycle(fn.tasks, id)

(***************************************************************************)
(* execute: mode detection and validation.                                 *)
(*                                                                         *)
(* A parameter is "undefined", "null", or a value of its type: the string  *)
(* task is "empty", "blank" (white space only) or "text"; the arrays tasks *)
(* and chain are "empty" or "items"; race and team are an "object".        *)
(***************************************************************************)
\* the engine of a mode spawns at most MaxChildren children
MaxChildren == 2

TaskValues  == {"undefined", "null", "empty", "blank", "text"}
ArrayValues == {"undefined", "null", "empty", "items"}
ObjectValues == {"undefined", "null", "object"}

IsString(v) == v \in {"empty", "blank", "text"}
\* v.trim().length
TrimLength(v) == IF v = "text" THEN 1 ELSE 0
IsArray(v) == v \in {"empty", "items"}
\* v.length of an array
Length(v) == IF v = "items" THEN 1 ELSE 0
\* the value counts as true in a condition
Truthy(v) == v \notin {"undefined", "null", "empty"}

hasChain(params)  == IsArray(params.chain) /\ Length(params.chain) > 0
hasRace(params)   == params.race # "undefined" /\ params.race # "null"
hasTasks(params)  == IsArray(params.tasks) /\ Length(params.tasks) > 0
hasSingle(params) == IsString(params.task) /\ TrimLength(params.task) > 0
hasTeam(params)   == params.team # "undefined" /\ params.team # "null"

Number(b) == IF b THEN 1 ELSE 0

modeCount(params) ==
    Number(hasChain(params)) + Number(hasRace(params)) + Number(hasTasks(params))
        + Number(hasSingle(params)) + Number(hasTeam(params))

\* the check that rejects only a call without any mode
NoModeSupplied(params) == modeCount(params) = 0

\* if (modeCount !== 1) return "Invalid parameters ..."
InvalidModeCount(params) == modeCount(params) # 1

\* the branch taken: single, chain, race, parallel, team, in this order
ModeOf(params) ==
    IF hasSingle(params) /\ Truthy(params.task) THEN "single"
    ELSE IF hasChain(params) /\ Truthy(params.chain) THEN "chain"
    ELSE IF hasRace(params) /\ Truthy(params.race) THEN "race"
    ELSE IF hasTasks(params) /\ Truthy(params.tasks) THEN "parallel"
    ELSE IF hasTeam(params) /\ Truthy(params.team) THEN "team"
    ELSE "none"

NoResponse == [text |-> "none", mode |-> "none", results |-> 0]

InvalidResponse == [text |-> "Invalid parameters", mode |-> "single", results |-> 0]

\* makeDetails(mode, []) under an error text
ErrorResponse(text, mode) == [text |-> text, mode |-> mode, results |-> 0]

\* params.team.tasks: omitted (<<>>), a chain of two tasks, a repeated id, an
\* unknown dependency, an unknown assignee, a task that depends on itself
TeamTaskInputs ==
    { <<>>,
      << BuildTask(1, <<>>, "dev", "undefined"), BuildTask(2, <<1>>, "dev", "dev") >>,
      << BuildTask(1, <<>>, "dev", "undefined"), BuildTask(1, <<>>, "dev", "undefined") >>,
      << BuildTask(1, <<0>>, "dev", "undefined") >>,
      << BuildTask(1, <<>>, "ghost", "undefined") >>,
      << BuildTask(1, <<1>>, "dev", "undefined") >> }

DispInit ==
    \E t \in TaskValues, ts \in ArrayValues, ch \in ArrayValues,
       rc \in ObjectValues, tm \in ObjectValues, unknown \in BOOLEAN :
      \E teamTasks \in (IF tm = "object" THEN TeamTaskInputs ELSE {<<>>}),
         memberTasks \in (IF tm = "object" THEN BOOLEAN ELSE {FALSE}) :
        disp = [pc       |-> "start",
                params   |-> [task |-> t, tasks |-> ts, chain |-> ch,
                              race |-> rc, team |-> tm],
                \* an agent named by the call is not among the agents found
                unknownAgent |-> unknown,
                \* team.tasks, and whether the members carry a task of their own
                teamTasks    |-> teamTasks,
                memberTasks  |-> memberTasks,
                mode     |-> "none",
                workspace |-> "none",
                spawned  |-> 0,
                response |-> NoResponse]

\* the cleanup that leaves the directory in place
keepWorkspace(workspace) == workspace

\* cleanupWorkspace: fs.rmSync(workspace.root, { recursive: true, force: true })
cleanupWorkspace(workspace) == "removed"

\* team mode: the tasks of the DAG, given or generated from the members
TeamTasks(d) ==
    IF Len(d.teamTasks) > 0 THEN d.teamTasks
    ELSE IF d.memberTasks THEN <<BuildTask(1, <<>>, "dev", "undefined")>>
    ELSE <<>>

\* the team dispatcher that hands every task list to the executor
DagNeverRejected(teamTasks) == FALSE

\* try { dagNodes = buildDag(teamTasks, membersMap) } catch
DagRejected(teamTasks) == ~buildDag(teamTasks, Members).ok

\* a return inside the try block of team mode, and its finally
TeamReturn(d, response) ==
    [d EXCEPT !.pc = "returned", !.response = response,
              !.workspace = cleanupWorkspace(@)]

\* team mode from createWorkspace() to a return or to the await of executeDag
TeamEntry(d) ==
    LET created == [d EXCEPT !.mode = "team", !.workspace = "created"]
    IN  IF d.unknownAgent
        THEN TeamReturn(created, ErrorResponse("Unknown agent", "team"))
        ELSE IF TeamTasks(d) = <<>>
        THEN TeamReturn(created, ErrorResponse("Team mode requires tasks", "team"))
        ELSE IF DagRejected(TeamTasks(d))
        THEN TeamReturn(created, ErrorResponse("Team DAG error", "team"))
        ELSE [created EXCEPT !.pc = "running"]

\* execute up to its first return or up to the engine of the mode
Execute ==
    /\ disp.pc = "start"
    /\ LET mode == ModeOf(disp.params)
       IN  disp' =
             IF InvalidModeCount(disp.params) \/ mode = "none"
             THEN [disp EXCEPT !.pc = "returned", !.response = InvalidResponse]
             ELSE IF mode \in {"single", "chain", "parallel"} /\ disp.unknownAgent
             THEN [disp EXCEPT !.pc = "returned", !.mode = mode,
                               !.response = ErrorResponse("Unknown agent", mode)]
             ELSE IF mode = "team"
             THEN TeamEntry(disp)
             ELSE [disp EXCEPT !.pc = "running", !.mode = mode]
    /\ UNCHANGED <<extVars, dagVars, ra, pool, race>>

\* the engine of the mode calls runAgent, which spawns a child
EngineSpawn ==
    /\ disp.pc = "running"
    /\ disp.spawned < MaxChildren
    /\ disp' = [disp EXCEPT !.spawned = @ + 1]
    /\ UNCHANGED <<extVars, dagVars, ra, pool, race>>

\* the engine is done (its runs ended, or the token fired) and execute
\* returns the response of the mode
EngineReturn ==
    /\ disp.pc = "running"
    /\ LET response == [text |-> "result", mode |-> disp.mode,
                        results |-> disp.spawned]
       IN  disp' = IF disp.mode = "team"
                   THEN TeamReturn(disp, response)
                   ELSE [disp EXCEPT !.pc = "returned", !.response = response]
    /\ UNCHANGED <<extVars, dagVars, ra, pool, race>>

\* the engine, or the code after it, throws: execute rejects; in team mode
\* the exception leaves the try block through its finally
EngineThrows ==
    /\ disp.pc = "running"
    /\ disp' = [disp EXCEPT
           !.pc = "threw",
           !.workspace = IF disp.mode = "team" THEN cleanupWorkspace(@) ELSE @]
    /\ UNCHANGED <<extVars, dagVars, ra, pool, race>>

DispNext == Execute \/ EngineSpawn \/ EngineReturn \/ EngineThrows

SpecDispatchInit == DispInit /\ DagIdle /\ ra = Idle /\ pool = Idle /\ race = Idle /\ ExtIdle

\* one call of execute
SpecDispatch == SpecDispatchInit /\ [][DispNext]_vars

\* A mode is supplied when its parameter holds something to run: a task that
\* is not blank, a tasks or chain array with items, a race or team object.
SuppliedModes ==
    Number(disp.params.task = "text") + Number(disp.params.tasks = "items")
        + Number(disp.params.chain = "items") + Number(disp.params.race = "object")
        + Number(disp.params.team = "object")

\* C1: when the number of supplied modes is not exactly 1, execute returns the
\* "Invalid parameters" response with empty results and spawns no child; a
\* child is spawned only when exactly one mode is supplied.
C1_ExactlyOneMode ==
    /\ disp.pc = "returned" /\ SuppliedModes # 1 =>
          disp.response = InvalidResponse /\ disp.spawned = 0
    /\ disp.pc \notin {"idle", "start"} /\ SuppliedModes # 1 => disp.pc = "returned"
    /\ disp.pc # "idle" /\ disp.spawned > 0 => SuppliedModes = 1

\* two modes were supplied and the call was rejected
C1_Witness ==
    /\ disp.pc = "returned"
    /\ SuppliedModes = 2
    /\ disp.response.text = "Invalid parameters"

(***************************************************************************)
(* Properties of runAgent.                                                 *)
(***************************************************************************)
\* C11: whatever the child does (spawn error, non-zero exit, termination by
\* a signal, cancellation), runAgent returns one TaskResult, and the result
\* of a failed run says so: exitCode is not 0, or error is set, or aborted.
C11_FailedRunIsMarked ==
    ra.pc = "returned" =>
        /\ ra.result # NoAgentResult
        /\ (\/ ra.exit \in {"spawnError", "code1", "signal"}
            \* killProc ran before runAgent returned
            \/ ra.wasAborted /\ ra.lateEmits = 0) =>
              \/ ra.result.exitCode # 0
              \/ ra.result.error # "none"
              \/ ra.result.aborted

\* C12 as stated: when the child exits with code 0 but a processed assistant
\* message_end event carried an API error, the result has exitCode 1, its
\* error is the last recorded errorMessage, and the final progress status is
\* failed.
C12_ApiErrorFails ==
    (ra.pc = "returned" /\ ra.exit = "code0" /\ ra.apiError > 0) =>
        /\ ra.result.exitCode = 1
        /\ ra.result.error = "api" /\ ra.result.errorMsg = ra.apiError
        /\ ra.finalStatus = "failed"

\* C12, amended: as above, but the final progress status is failed only when
\* the run was not cancelled; the final status of a cancelled run is aborted.
C12_ApiErrorRewrites ==
    (ra.pc = "returned" /\ ra.exit = "code0" /\ ra.apiError > 0) =>
        /\ ra.result.exitCode = 1
        /\ ra.result.error = "api" /\ ra.result.errorMsg = ra.apiError
        /\ ra.finalStatus = IF ra.result.aborted THEN "aborted" ELSE "failed"

\* a child that reported two API errors exited with code 0 and was not cancelled
C12_Witness ==
    /\ ra.pc = "returned" /\ ra.exit = "code0"
    /\ ra.apiError = MaxApiErrors
    /\ ~ra.result.aborted
    /\ ra.result.exitCode = 1

(***************************************************************************)
(* Properties of the review cycle and of the approval gate.                *)
(***************************************************************************)
\* the last entry of the review history of node n in ns
LastReview(ns, n) == ns[n].reviewHistory[Len(ns[n].reviewHistory)]

\* the step appends an entry to the review history of n
ReviewRecorded(n) ==
    Len(nodes'[n].reviewHistory) = Len(nodes[n].reviewHistory) + 1

\* C13: a node becomes completed only when (a) it has no review and its last
\* result has exit code 0, or (b) its reviewer returned APPROVED, or (c) its
\* reviewer returned REVISION_NEEDED with iteration >= maxIterations; for
\* every combination of requiresApproval and review on the task and every
\* outcome of the reviewer.
C13_CompletedOnlyWhenAccepted ==
    [][\A n \in NodeIds(nodes) :
          (nodes[n].status # "completed" /\ nodes'[n].status = "completed") =>
              \/ /\ ~nodes[n].review.present
                 /\ nodes'[n].result.run # 0
                 /\ nodes'[n].result.exitCode = 0
              \/ /\ nodes[n].review.present
                 /\ ReviewRecorded(n)
                 /\ LastReview(nodes', n).approved
              \/ /\ nodes[n].review.present
                 /\ ReviewRecorded(n)
                 /\ ~LastReview(nodes', n).approved
                 /\ nodes'[n].iteration >= MaxIter(nodes[n])
      ]_vars

\* C14: for every reviewed task and every sequence of outcomes, in every
\* reachable state the review history has at most maxIterations entries and
\* its entries carry the iteration numbers 1, 2, ... in order.
C14_HistoryBounded ==
    \A n \in NodeIds(nodes) :
        nodes[n].review.present =>
            /\ Len(nodes[n].reviewHistory) <= MaxIter(nodes[n])
            /\ \A k \in 1..Len(nodes[n].reviewHistory) :
                  nodes[n].reviewHistory[k].iteration = k

\* a review cycle that used all its iterations: as many entries as
\* maxIterations, more than one, the last from a review after a revision
C14_Witness ==
    \E n \in NodeIds(nodes) :
        /\ nodes[n].review.present
        /\ Len(nodes[n].reviewHistory) = MaxIter(nodes[n])
        /\ Len(nodes[n].reviewHistory) > 1
        /\ nodes[n].status = "completed"

\* the review cycle of n has run and has ended
ReviewCycleEnded(n) ==
    /\ nodes[n].review.present
    /\ nodes[n].reviewHistory # <<>>
    /\ nodes[n].status \in {"completed", "failed"}

\* C15: for every reviewed task, when the review cycle has ended, a final
\* history entry with approved = false implies that the history has
\* maxIterations entries; for every way the cycle can end (approval,
\* iteration cap, reviewer failure in a later iteration, failed revision).
C15_UnapprovedMeansCap ==
    \A n \in NodeIds(nodes) :
        (ReviewCycleEnded(n) /\ ~LastReview(nodes, n).approved) =>
            Len(nodes[n].reviewHistory) = MaxIter(nodes[n])

\* C15, amended: when the review cycle has ended on the decision of the
\* reviewer of the current iteration (the node is completed and the history
\* has an entry of that iteration), a final entry with approved = false
\* implies that the history has maxIterations entries.
C15_UnapprovedDecisionMeansCap ==
    \A n \in NodeIds(nodes) :
        ( /\ ReviewCycleEnded(n)
          /\ nodes[n].status = "completed"
          /\ Len(nodes[n].reviewHistory) = nodes[n].iteration
          /\ ~LastReview(nodes, n).approved ) =>
            Len(nodes[n].reviewHistory) = MaxIter(nodes[n])

\* the cycle ended at the iteration cap, the last reviewer asking for a revision
C15_Witness ==
    \E n \in NodeIds(nodes) :
        /\ ReviewCycleEnded(n)
        /\ nodes[n].status = "completed"
        /\ Len(nodes[n].reviewHistory) = nodes[n].iteration
        /\ ~LastReview(nodes, n).approved
        /\ nodes[n].iteration = DEFAULT_MAX_ITERATIONS

\* C16: for every reviewed task whose first worker run succeeded and every
\* maxIterations (any number, 0 included), when the review cycle returns
\* without cancellation and without a failed revision run the node is
\* completed: it is never left running, reviewing or revising.
C16_ReviewCycleCompletes ==
    (pc \in {"loop", "returned"} /\ ~signalAborted) =>
        \A n \in NodeIds(nodes) :
            nodes[n].review.present =>
                nodes[n].status \notin {"running", "reviewing", "revising"}

\* the runs (indices in spawned) of the worker of n: its batch runs and its
\* revision runs, in the order they were started
WorkerRuns(n) ==
    SelectSeq([i \in 1..Len(spawned) |-> i],
              LAMBDA i : spawned[i].node = n
                         /\ spawned[i].kind \in {"worker", "revision"})

\* C17: for a reviewed task where every worker and reviewer run succeeds and
\* the reviewer first answers APPROVED at its k-th review, 1 <= k <=
\* maxIterations, the node ends completed with iteration = k, k history
\* entries of which only the last is approved, and node.result the output of
\* the k-th worker run.
C17_ApprovedAtKthReview ==
    \A n \in NodeIds(nodes) :
        ( /\ ReviewCycleEnded(n)
          /\ LastReview(nodes, n).approved ) =>
            LET k == Len(nodes[n].reviewHistory)
            IN  /\ nodes[n].status = "completed"
                /\ nodes[n].iteration = k
                /\ k <= MaxIter(nodes[n])
                /\ \A j \in 1..(k - 1) : ~nodes[n].reviewHistory[j].approved
                /\ Len(WorkerRuns(n)) = k
                /\ nodes[n].result.run = WorkerRuns(n)[k]
                /\ nodes[n].result.exitCode = 0
                /\ ~nodes[n].result.aborted

\* the reviewer approved at its third review, after two revisions
C17_Witness ==
    \E n \in NodeIds(nodes) :
        /\ ReviewCycleEnded(n)
        /\ LastReview(nodes, n).approved
        /\ Len(nodes[n].reviewHistory) = DEFAULT_MAX_ITERATIONS
        /\ nodes[n].result.run = WorkerRuns(n)[DEFAULT_MAX_ITERATIONS]

\* the step is the return of a reviewer run that failed or was aborted
ReviewerRunFails ==
    /\ pc = "review"
    /\ Len(allResults') = Len(allResults) + 1
    /\ LET reviewResult == allResults'[Len(allResults')]
       IN  reviewResult.exitCode # 0 \/ reviewResult.aborted

\* C18: in the review cycle, whenever a reviewer run fails (exit code not 0)
\* or is aborted, at any iteration, the node is marked completed with
\* node.result left as the current output of the worker, no history entry is
\* appended for that run, and no further reviewer or revision run is started
\* for the node.
C18_ReviewFailureAccepts ==
    [][ /\ ReviewerRunFails =>
            /\ nodes'[cur].status = "completed"
            /\ nodes'[cur].result = nodes[cur].result
            /\ nodes'[cur].reviewHistory = nodes[cur].reviewHistory
            /\ pc' = "batch"
        \* no run is started for a node whose cycle accepted its output
        /\ \A i \in (Len(spawned) + 1)..Len(spawned') :
              nodes[spawned'[i].node].review.present =>
                  nodes[spawned'[i].node].status # "completed"
      ]_vars

\* a reviewer run failed in the second iteration, after a revision: the node
\* is completed with the output of the revision and the entry of the first
\* review only
C18_Witness ==
    \E n \in NodeIds(nodes) :
        /\ ReviewCycleEnded(n)
        /\ nodes[n].status = "completed"
        /\ nodes[n].iteration = 2
        /\ Len(nodes[n].reviewHistory) = 1
        /\ nodes[n].result.run = WorkerRuns(n)[2]
        /\ allResults[Len(allResults)].exitCode # 0

\* the step is the approval callback answering approved = false
ApprovalRejected == pc = "approval" /\ rejections' = rejections + 1

\* C19: for a requiresApproval task whose run succeeded, when the approval
\* callback answers approved = false with feedback, the node goes back to
\* ready with the feedback appended to its task text and is started (running)
\* again in the same scheduler iteration; after a run that succeeds it is
\* awaiting_approval again; it becomes completed only by an answer
\* approved = true of the callback, or by auto-approval without a callback.
\* (Checked for a concurrency limit of at least 1.)
C19_RejectedTaskRerunsAtOnce ==
    [][ maxConcurrency >= 1 =>
          LET approvalNode == getPendingApproval(nodes)
          IN  /\ ApprovalRejected =>
                    /\ nodes'[approvalNode].status = "running"
                    /\ nodes'[approvalNode].feedback \in
                           {nodes[approvalNode].feedback,
                            nodes[approvalNode].feedback + 1}
                    /\ spawned'[Len(spawned')].kind = "worker"
                    /\ \E i \in (Len(spawned) + 1)..Len(spawned') :
                          spawned'[i].node = approvalNode
              /\ \A n \in NodeIds(nodes) :
                    nodes[n].requiresApproval =>
                        \* a run that succeeded waits for approval
                        /\ ( /\ nodes[n].status = "running"
                             /\ nodes'[n].status # "running" ) =>
                               nodes'[n].status \in {"awaiting_approval", "failed"}
                        \* completed only by approval
                        /\ ( /\ nodes[n].status # "completed"
                             /\ nodes'[n].status = "completed" ) =>
                               /\ nodes[n].status = "awaiting_approval"
                               /\ \/ pc = "approval" /\ rejections' = rejections
                                  \/ pc = "loop" /\ ~onApprovalNeeded
      ]_vars

\* run i of spawned is the first batch run of its node
FirstPass(i) ==
    \A j \in 1..(i - 1) :
        ~(spawned[j].node = spawned[i].node /\ spawned[j].kind = "worker")

\* C20: for a requiresApproval task only its first pass runs with the
\* read-only tool set; a rerun after a rejected approval runs with the
\* configured tools of the assignee.
C20_OnlyFirstPassReadOnly ==
    \A i \in 1..Len(spawned) :
        (spawned[i].kind = "worker" /\ nodes[spawned[i].node].requiresApproval) =>
            spawned[i].tools = IF FirstPass(i) THEN "readonly" ELSE "member"

(***************************************************************************)
(* execute, chain mode (index.ts).                                         *)
(***************************************************************************)
\* a chain has at most MaxSteps steps
MaxSteps == 4

\* the test that stops the chain on the exit code only
ChainStepFailedByExitCode(result) == result.exitCode # 0

\* "Check for failure": if (result.exitCode !== 0 || result.aborted)
ChainStepFailed(result) == result.exitCode # 0 \/ result.aborted

NoChainResponse == [text |-> "none", step |-> 0, results |-> <<>>]

\* params.chain: its steps, each naming an agent that is known or is not
ChainInit ==
    \E n \in 1..MaxSteps, aborted \in BOOLEAN :
      \E unknown \in {{}} \cup {{k} : k \in 1..n} :
        chain = [pc            |-> "start",
                 steps         |-> n,
                 unknownAgents |-> unknown,
                 signalAborted |-> aborted,
                 i             |-> 0,
                 started       |-> <<>>,
                 results       |-> <<>>,
                 response      |-> NoChainResponse]

\* Validate all agents, then the first iteration of the loop up to its await.
ChainExecute ==
    /\ chain.pc = "start"
    /\ IF chain.unknownAgents # {}
       THEN chain' = [chain EXCEPT
                !.pc = "returned",
                !.response = [text |-> "Unknown agent(s) in chain", step |-> 0,
                              results |-> <<>>]]
       ELSE chain' = [chain EXCEPT
                !.pc = "step", !.i = 1,
                !.started = Append(@, [step |-> 1, tokenFired |-> chain.signalAborted])]
    /\ UNCHANGED <<dagVars, ra, pool, race, disp, fn>>

\* The child of the current step closes: runAgent returns, the result is
\* pushed, and the loop stops, goes on to the next await, or ends.
ChainStepClose(code, apiError) ==
    /\ chain.pc = "step"
    /\ LET result  == RunAgentResult(code, chain.signalAborted, apiError)
           results == Append(chain.results, result)
       IN  IF ChainStepFailed(result)
           THEN chain' = [chain EXCEPT
                    !.pc = "returned", !.results = results,
                    !.response = [text |-> "Chain stopped at step", step |-> chain.i,
                                  results |-> results]]
           ELSE IF chain.i < chain.steps
           THEN chain' = [chain EXCEPT
                    !.results = results, !.i = @ + 1,
                    !.started = Append(@, [step |-> chain.i + 1,
                                           tokenFired |-> chain.signalAborted])]
           ELSE chain' = [chain EXCEPT
                    !.pc = "returned", !.results = results,
                    !.response = [text |-> "output of the last step", step |-> 0,
                                  results |-> results]]
    /\ UNCHANGED <<dagVars, ra, pool, race, disp, fn>>

\* The token fires while execute awaits the step.
ChainAbort ==
    /\ chain.pc = "step"
    /\ ~chain.signalAborted
    /\ chain' = [chain EXCEPT !.signalAborted = TRUE]
    /\ UNCHANGED <<dagVars, ra, pool, race, disp, fn>>

ChainNext ==
    \/ ChainExecute
    \/ \E code \in ExitCodes, apiError \in BOOLEAN : ChainStepClose(code, apiError)
    \/ ChainAbort

SpecChainInit ==
    /\ ChainInit /\ DagIdle
    /\ ra = Idle /\ pool = Idle /\ race = Idle /\ disp = Idle /\ fn = Idle

\* one call of execute in chain mode
SpecChain == SpecChainInit /\ [][ChainNext]_vars

\* C23: in chain mode the steps run strictly one after another, and as soon
\* as a step returns with exit code not 0 or aborted (also after the token
\* fired) no later step is started: the response is "Chain stopped at step i"
\* and its results are exactly the results of steps 1..i.
C23_ChainStopsAtFailure ==
    chain.pc # "idle" =>
        \* one after another: step k is started when k - 1 results are in
        /\ \A k \in 1..Len(chain.started) : chain.started[k].step = k
        /\ Len(chain.started) \in {Len(chain.results), Len(chain.results) + 1}
        /\ chain.pc = "returned" => Len(chain.started) = Len(chain.results)
        \* a failed or aborted result is the last one, and execute has returned
        /\ \A k \in 1..Len(chain.results) :
              (chain.results[k].exitCode # 0 \/ chain.results[k].aborted) =>
                  /\ k = Len(chain.started)
                  /\ chain.pc = "returned"
                  /\ chain.response.text = "Chain stopped at step"
                  /\ chain.response.step = k
                  /\ chain.response.results = chain.results
                  /\ Len(chain.response.results) = k

\* a chain of three steps stopped at its second step, whose child exited
\* with code 0 after the token had fired
C23_Witness ==
    /\ chain.pc = "returned" /\ chain.steps = 3
    /\ chain.response.text = "Chain stopped at step" /\ chain.response.step = 2
    /\ chain.results[2].exitCode = 0 /\ chain.results[2].aborted

(***************************************************************************)
(* Properties of the validation of execute and of the team workspace.      *)
(***************************************************************************)
ValidationErrors ==
    {"Invalid parameters", "Unknown agent", "Team mode requires tasks",
     "Team DAG error"}

\* the call is one that validation has to refuse
InvalidCall ==
    LET mode == ModeOf(disp.params)
    IN  \/ InvalidModeCount(disp.params)
        \/ mode \in {"single", "chain", "parallel", "team"} /\ disp.unknownAgent
        \/ /\ mode = "team"
           /\ \/ TeamTasks(disp) = <<>>
              \/ ~ValidGraph(TeamTasks(disp))
              \/ HasUnknownAssignee(TeamTasks(disp), Members)

\* C24: whenever execute returns a validation error (mode count not 1,
\* unknown agent in single, chain, parallel or team mode, team without
\* tasks, repeated task id, unknown dependency or assignee, dependency
\* cycle), no child was launched and the results of the details are empty;
\* and a call with one of these defects gets nothing but that error.
C24_ValidationErrorSpawnsNothing ==
    /\ (disp.pc = "returned" /\ disp.response.text \in ValidationErrors) =>
          disp.spawned = 0 /\ disp.response.results = 0
    /\ (disp.pc \notin {"idle", "start"} /\ InvalidCall) =>
          /\ disp.pc = "returned"
          /\ disp.response.text \in ValidationErrors
          /\ disp.spawned = 0

\* a team whose task depends on itself was refused
C24_Witness ==
    /\ disp.pc = "returned"
    /\ disp.response = ErrorResponse("Team DAG error", "team")
    /\ \E i \in 1..Len(disp.teamTasks) : OnCycle(disp.teamTasks, disp.teamTasks[i].id)
    /\ disp.spawned = 0

C26_ResultsInCompletionOrder ==
    (pc = "batch" /\ AllClosed) =>
        \A i \in 1..Len(batch), j \in 1..Len(batch) :
            \* the result of batch[i] is in allResults, that of batch[j] is not
            (i <= procIdx /\ procIdx < j) =>
                batchResults[batch[i]].finished < batchResults[batch[j]].finished

(***************************************************************************)
(* truncateOutput (executor.ts).                                           *)
(*                                                                         *)
(* A string is a sequence of UTF-16 code units.  The units told apart are  *)
(* "a" (one byte in UTF-8), "\n", "E" (a unit of three bytes), and the two *)
(* halves "H", "L" of a surrogate pair: four bytes as a pair, three bytes  *)
(* each when alone (U+FFFD).                                               *)
(***************************************************************************)
\* an output has at most MaxOutputLen code units
MaxOutputLen == 5

CodeUnits == {"a", "\n", "E", "H", "L"}

\* The caps handed to truncateOutput.  Its defaults MAX_OUTPUT_BYTES (50 KB)
\* and MAX_OUTPUT_LINES (2000) are scaled down; like them, the small caps
\* hold at least one code unit (3 bytes) and one line.
ByteCaps == {3, 4}
LineCaps == {1, 2}

Strings(n) == UNION {[1..k -> CodeUnits] : k \in 0..n}

\* Buffer.byteLength(s, "utf-8")
RECURSIVE ByteLength(_)
ByteLength(s) ==
    IF s = <<>> THEN 0
    ELSE IF Len(s) >= 2 /\ s[1] = "H" /\ s[2] = "L"
    THEN 4 + ByteLength(SubSeq(s, 3, Len(s)))
    ELSE (IF s[1] \in {"a", "\n"} THEN 1 ELSE 3) + ByteLength(Tail(s))

\* s.split("\n")
RECURSIVE Split(_)
Split(s) ==
    IF \A k \in 1..Len(s) : s[k] # "\n" THEN <<s>>
    ELSE LET k == CHOOSE i \in 1..Len(s) :
                      s[i] = "\n" /\ \A j \in 1..(i - 1) : s[j] # "\n"
         IN  <<SubSeq(s, 1, k - 1)>> \o Split(SubSeq(s, k + 1, Len(s)))

\* lines.join("\n")
RECURSIVE Join(_)
Join(lines) ==
    IF Len(lines) = 1 THEN lines[1]
    ELSE lines[1] \o <<"\n">> \o Join(Tail(lines))

\* the slice that keeps the first half
SliceTo(s, start) == SubSeq(s, 1, Len(s) - start)

\* s.slice(start), 0 <= start <= s.length
SliceFrom(s, start) == SubSeq(s, start + 1, Len(s))

\* while (byteLength(result) > maxBytes && result.length > 0) result = result.slice(floor(length / 2))
RECURSIVE HalveToFit(_, _)
HalveToFit(result, maxBytes) ==
    IF ByteLength(result) > maxBytes /\ Len(result) > 0
    THEN HalveToFit(SliceFrom(result, Len(result) \div 2), maxBytes)
    ELSE result

truncateOutput(output, maxBytes, maxLines) ==
    LET lines     == Split(output)
        tooLong   == Len(lines) > maxLines
        \* lines.splice(0, lines.length - maxLines)
        kept      == IF tooLong
                     THEN SubSeq(lines, Len(lines) - maxLines + 1, Len(lines))
                     ELSE lines
        result    == Join(kept)
        tooBig    == ByteLength(result) > maxBytes
    IN  [output    |-> IF tooBig THEN HalveToFit(result, maxBytes) ELSE result,
         truncated |-> tooLong \/ tooBig]

TruncateInit ==
    \E output \in Strings(MaxOutputLen), maxBytes \in ByteCaps, maxLines \in LineCaps :
        fn = [pc |-> "start", output |-> output, maxBytes |-> maxBytes,
              maxLines |-> maxLines, result |-> [output |-> <<>>, truncated |-> FALSE]]

\* the call of truncateOutput
TruncateCall ==
    /\ fn.pc = "start"
    /\ fn' = [fn EXCEPT !.pc = "returned",
                        !.result = truncateOutput(fn.output, fn.maxBytes, fn.maxLines)]
    /\ UNCHANGED <<dagVars, ra, pool, race, disp, chain>>

SpecTruncateInit ==
    /\ TruncateInit /\ DagIdle
    /\ ra = Idle /\ pool = Idle /\ race = Idle /\ disp = Idle /\ chain = Idle

\* one call of truncateOutput
SpecTruncate == SpecTruncateInit /\ [][TruncateCall]_vars

IsSuffix(t, s) == Len(t) <= Len(s) /\ t = SubSeq(s, Len(s) - Len(t) + 1, Len(s))

\* C27: for every input string, truncateOutput returns an output that is a
\* suffix of the input, of UTF-8 byte length <= the byte cap and of split-line
\* count <= the line cap, and truncated is true if and only if the output
\* differs from the input.
C27_TruncateOutput ==
    fn.pc = "returned" =>
        /\ IsSuffix(fn.result.output, fn.output)
        /\ ByteLength(fn.result.output) <= fn.maxBytes
        /\ Len(Split(fn.result.output)) <= fn.maxLines
        /\ fn.result.truncated <=> fn.result.output # fn.output

\* both caps cut: lines were dropped, and the lines kept were halved to a
\* string that starts with the second half of a surrogate pair
C27_Witness ==
    /\ fn.pc = "returned" /\ fn.result.truncated
    /\ Len(Split(fn.output)) > fn.maxLines
    /\ Len(fn.result.output) > 0
    /\ LET lines == Split(fn.output)
       IN  ByteLength(Join(SubSeq(lines, Len(lines) - fn.maxLines + 1, Len(lines))))
               > fn.maxBytes
    /\ fn.result.output[1] = "L"
    /\ "\n" \in {fn.result.output[k] : k \in 1..Len(fn.result.output)}

(***************************************************************************)
(* resolveTaskReferences (dag.ts).                                         *)
(*                                                                         *)
(* A text is a sequence of tokens: "{task:" (the opening of a placeholder),*)
(* "}", the characters "x", "y", "z" that ids are made of, and "t", any    *)
(* other character.                                                        *)
(***************************************************************************)
\* a task text has at most MaxTextLen tokens
MaxTextLen == 5

TextTokens == {"{task:", "}", "x", "y", "t"}
Texts(n) == UNION {[1..k -> TextTokens] : k \in 0..n}

\* The node maps: id -> node.result?.output ("" when there is no output).
\* The output of x holds a placeholder; y has an output or none; no other
\* id is a node.
NodeOutputs ==
    { [id \in {<<"x">>, <<"y">>} |->
          IF id = <<"x">> THEN <<"{task:", "y", "}">> ELSE out] :
        out \in {<<>>, <<"t">>} }

\* the end of the match of /\{task:([^}]+)\}/ that starts at i, 0 if none
MatchEnd(text, i) ==
    IF text[i] # "{task:" \/ \A j \in (i + 1)..Len(text) : text[j] # "}"
    THEN 0
    ELSE LET j == CHOOSE c \in (i + 1)..Len(text) :
                      text[c] = "}" /\ \A k \in (i + 1)..(c - 1) : text[k] # "}"
         IN  IF j >= i + 2 THEN j ELSE 0

\* the callback that never resolves
KeepPlaceholder(match, taskId, outputs) == match

\* (match, taskId) => node?.result?.output ? node.result.output : match
Replacement(match, taskId, outputs) ==
    IF taskId \in DOMAIN outputs /\ outputs[taskId] # <<>>
    THEN outputs[taskId]
    ELSE match

\* text.replace(/\{task:([^}]+)\}/g, callback)
RECURSIVE resolveTaskReferences(_, _)
resolveTaskReferences(text, outputs) ==
    LET starts == {i \in 1..Len(text) : MatchEnd(text, i) # 0}
    IN  IF starts = {} THEN text
        ELSE LET i == CHOOSE a \in starts : \A b \in starts : a <= b
                 j == MatchEnd(text, i)
             IN  SubSeq(text, 1, i - 1)
                 \o Replacement(SubSeq(text, i, j), SubSeq(text, i + 1, j - 1), outputs)
                 \o resolveTaskReferences(SubSeq(text, j + 1, Len(text)), outputs)

ResolveInit ==
    \E text \in Texts(MaxTextLen), outputs \in NodeOutputs :
        fn = [pc |-> "start", text |-> text, outputs |-> outputs, result |-> <<>>]

\* the call of resolveTaskReferences
ResolveCall ==
    /\ fn.pc = "start"
    /\ fn' = [fn EXCEPT !.pc = "returned",
                        !.result = resolveTaskReferences(fn.text, fn.outputs)]
    /\ UNCHANGED <<dagVars, ra, pool, race, disp, chain>>

SpecResolveInit ==
    /\ ResolveInit /\ DagIdle
    /\ ra = Idle /\ pool = Idle /\ race = Idle /\ disp = Idle /\ chain = Idle

\* one call of resolveTaskReferences
SpecResolve == SpecResolveInit /\ [][ResolveCall]_vars

\* what the placeholder {task:X} stands for
PlaceholderValue(taskId, outputs) ==
    IF taskId \in DOMAIN outputs /\ outputs[taskId] # <<>>
    THEN outputs[taskId]
    ELSE <<"{task:">> \o taskId \o <<"}">>

\* C28: for every text and node map, resolveTaskReferences replaces each
\* occurrence of {task:X} by the output of node X when X exists and has a
\* non-empty output and leaves the placeholder verbatim when X is absent or
\* its output is empty; text outside placeholders is unchanged, and an
\* output substituted is not scanned for placeholders.  Stated on the first
\* "{task:" of the text, at position i, and the first "}" after it, at j:
\* without that "}" the text is unchanged; the empty {task:} stays and the
\* rest is resolved; else the text before i stays, the placeholder becomes
\* what it stands for, and the rest is resolved.
C28_ReferencesResolved ==
    fn.pc = "returned" =>
        LET text == fn.text
            opens == {i \in 1..Len(text) : text[i] = "{task:"}
        IN  IF opens = {} THEN fn.result = text
            ELSE LET i == CHOOSE a \in opens : \A b \in opens : a <= b
                     closes == {c \in (i + 1)..Len(text) : text[c] = "}"}
                 IN  IF closes = {} THEN fn.result = text
                     ELSE LET j == CHOOSE a \in closes : \A b \in closes : a <= b
                              rest == resolveTaskReferences(
                                          SubSeq(text, j + 1, Len(text)), fn.outputs)
                          IN  fn.result =
                                SubSeq(text, 1, i - 1)
                                \o (IF j = i + 1 THEN <<"{task:", "}">>
                                    ELSE PlaceholderValue(SubSeq(text, i + 1, j - 1), fn.outputs))
                                \o rest

\* {task:x} was replaced by the output of x, which holds {task:y}, although
\* y has an output; a text character after it is unchanged
C28_Witness ==
    /\ fn.pc = "returned"
    /\ fn.outputs[<<"y">>] # <<>>
    /\ fn.text = <<"t", "{task:", "x", "}", "t">>
    /\ fn.result = <<"t", "{task:", "y", "}", "t">>

(***************************************************************************)
(* parseReviewDecision (dag.ts).                                           *)
(*                                                                         *)
(* A reviewer output is a sequence of tokens: the words "APPROVED",        *)
(* "REVISION_NEEDED" and "not", "w" (any other word), " " and "\n".  It is *)
(* shorter than the 200 characters of the fallback.                        *)
(***************************************************************************)
\* a reviewer output has at most MaxReviewLen tokens
MaxReviewLen == 5

ReviewTokens == {"APPROVED", "REVISION_NEEDED", "not", "w", " ", "\n"}
ReviewOutputs(n) == UNION {[1..k -> ReviewTokens] : k \in 0..n}

WhiteSpace == {" ", "\n"}

\* s.trim()
Trim(s) ==
    LET black == {k \in 1..Len(s) : s[k] \notin WhiteSpace}
    IN  IF black = {} THEN <<>>
        ELSE SubSeq(s, CHOOSE a \in black : \A b \in black : a <= b,
                       CHOOSE a \in black : \A b \in black : a >= b)

\* s.includes(sub)
Includes(s, sub) ==
    \E k \in 0..(Len(s) - Len(sub)) : SubSeq(s, k + 1, k + Len(sub)) = sub

\* the comparison that accepts a line holding the marker among other words
ContainsMarker(line, marker) == Includes(line, <<marker>>)

\* line === "APPROVED", line === "REVISION_NEEDED"
IsMarker(line, marker) == line = <<marker>>

\* "check for the words in the last portion": lower case, so the markers count
FallbackApproves(trimmed) ==
    /\ Includes(trimmed, <<"APPROVED">>)
    /\ ~Includes(trimmed, <<"not", " ", "APPROVED">>)
    /\ ~Includes(trimmed, <<"REVISION_NEEDED">>)

parseReviewDecision(output) ==
    LET trimmed == Trim(output)
        lines   == Split(trimmed)
        \* the first i, from the end, whose trimmed line is not empty; 0 if none
        full    == {k \in 1..Len(lines) : Trim(lines[k]) # <<>>}
        i       == IF full = {} THEN 0 ELSE CHOOSE a \in full : \A b \in full : a >= b
        line    == IF i = 0 THEN <<>> ELSE Trim(lines[i])
        \* lines.slice(0, i).join("\n").trim(); the join of no line is ""
        before  == IF i <= 1 THEN <<>> ELSE Trim(Join(SubSeq(lines, 1, i - 1)))
    IN  IF i # 0 /\ IsMarker(line, "APPROVED")
        THEN [approved |-> TRUE, feedback |-> before]
        ELSE IF i # 0 /\ IsMarker(line, "REVISION_NEEDED")
        THEN [approved |-> FALSE, feedback |-> before]
        ELSE IF FallbackApproves(trimmed)
        THEN [approved |-> TRUE, feedback |-> trimmed]
        ELSE [approved |-> FALSE, feedback |-> trimmed]

ParseInit ==
    \E output \in ReviewOutputs(MaxReviewLen) :
        fn = [pc |-> "start", output |-> output,
              result |-> [approved |-> FALSE, feedback |-> <<>>]]

\* the call of parseReviewDecision
ParseCall ==
    /\ fn.pc = "start"
    /\ fn' = [fn EXCEPT !.pc = "returned", !.result = parseReviewDecision(fn.output)]
    /\ UNCHANGED <<dagVars, ra, pool, race, disp, chain>>

SpecParseInit ==
    /\ ParseInit /\ DagIdle
    /\ ra = Idle /\ pool = Idle /\ race = Idle /\ disp = Idle /\ chain = Idle

\* one call of parseReviewDecision
SpecParse == SpecParseInit /\ [][ParseCall]_vars

\* the index of the last line of the output that is not blank, 0 if none
LastNonBlank(output) ==
    LET lines == Split(output)
        full  == {k \in 1..Len(lines) : lines[k] # <<>> /\ \E c \in 1..Len(lines[k]) :
                                                             lines[k][c] # " "}
    IN  IF full = {} THEN 0 ELSE CHOOSE a \in full : \A b \in full : a >= b

\* everything that precedes line i of the output, its line break included
Preceding(output, i) ==
    LET lines == Split(output)
    IN  IF i <= 1 THEN <<>> ELSE Join(SubSeq(lines, 1, i - 1)) \o <<"\n">>

\* the decision that the claim prescribes, feedback apart: "fallback" when
\* neither marker is the last non-blank line
MarkerDecision(output) ==
    LET i == LastNonBlank(output)
    IN  IF i = 0 THEN "fallback"
        ELSE IF Split(output)[i] = <<"APPROVED">> THEN "approved"
        ELSE IF Split(output)[i] = <<"REVISION_NEEDED">> THEN "rejected"
        ELSE IF Trim(Split(output)[i]) \in {<<"APPROVED">>, <<"REVISION_NEEDED">>}
        THEN "indented"
        ELSE "fallback"

\* C29: for every reviewer output parseReviewDecision returns a decision; if
\* the last non-blank line is exactly APPROVED it is approved, if exactly
\* REVISION_NEEDED it is not, in both cases with a feedback equal to
\* everything that precedes that line; only when neither marker is the last
\* non-blank line does the fallback apply, whose default is a rejection with
\* the whole output as feedback.
C29_ReviewDecisionParsed ==
    fn.pc = "returned" =>
        LET decision == MarkerDecision(fn.output)
            before   == Preceding(fn.output, LastNonBlank(fn.output))
        IN  /\ decision = "approved" =>
                  fn.result = [approved |-> TRUE, feedback |-> before]
            /\ decision = "rejected" =>
                  fn.result = [approved |-> FALSE, feedback |-> before]
            /\ decision = "fallback" =>
                  /\ fn.result.feedback = fn.output
                  /\ ~FallbackApproves(fn.output) => ~fn.result.approved

\* C29, amended: the feedback is what precedes the marker line, and in the
\* fallback the whole output, with the white space at its ends trimmed.
C29_ReviewDecisionParsedTrimmed ==
    fn.pc = "returned" =>
        LET decision == MarkerDecision(fn.output)
            before   == Trim(Preceding(fn.output, LastNonBlank(fn.output)))
        IN  /\ decision = "approved" =>
                  fn.result = [approved |-> TRUE, feedback |-> before]
            /\ decision = "rejected" =>
                  fn.result = [approved |-> FALSE, feedback |-> before]
            /\ decision = "fallback" =>
                  /\ fn.result.feedback = Trim(fn.output)
                  /\ ~FallbackApproves(fn.output) => ~fn.result.approved

\* a rationale, a blank line, the marker APPROVED and a trailing line break
C29_Witness ==
    /\ fn.pc = "returned"
    /\ fn.output = <<"w", "\n", "\n", "APPROVED", "\n">>
    /\ fn.result = [approved |-> TRUE, feedback |-> <<"w">>]

(***************************************************************************)
(* The state machine of a node.                                            *)
(***************************************************************************)
\* the transitions of the claim
NodeTransitions ==
    { <<"pending", "ready">>, <<"pending", "blocked">>, <<"ready", "running">>,
      <<"running", "completed">>, <<"running", "failed">>,
      <<"running", "awaiting_approval">>, <<"running", "reviewing">>,
      <<"awaiting_approval", "completed">>, <<"awaiting_approval", "ready">>,
      <<"reviewing", "completed">>, <<"reviewing", "revising">>,
      <<"revising", "reviewing">>, <<"revising", "failed">> }

\* C30: every change of the status of a node during buildDag and executeDag
\* is one of the transitions of the node state machine, and completed,
\* failed and blocked are terminal.  A rejected approval sets the node to
\* ready and the batch selection that follows, without suspension, sets it
\* to running: the two changes are one step here.
C30_NodeStateMachine ==
    [][\A n \in NodeIds(nodes) :
          nodes'[n].status # nodes[n].status =>
              /\ nodes[n].status \notin {"completed", "failed", "blocked"}
              /\ \/ <<nodes[n].status, nodes'[n].status>> \in NodeTransitions
                 \/ /\ ApprovalRejected
                    /\ nodes[n].status = "awaiting_approval"
                    /\ nodes'[n].status = "running"
      ]_vars

\* a node went through every status of a reviewed task and failed in its
\* revision, and a node that depends on it is blocked
C30_Witness ==
    \E n \in NodeIds(nodes), d \in NodeIds(nodes) :
        /\ n \in nodes[d].dependsOn
        /\ nodes[n].status = "failed" /\ nodes[n].reviewHistory # <<>>
        /\ nodes[d].status = "blocked"

(***************************************************************************)
(* runAgent: the tool events of processLine (executor.ts).                 *)
(*                                                                         *)
(* An event is [type, toolName, preview]: toolName is "undefined" when the *)
(* event carries none, preview is what extractToolArgsPreview returns for  *)
(* the arguments of the event.                                             *)
(***************************************************************************)
\* the child emits at most MaxEvents events
MaxEvents == 4

\* "if (progress.recentTools.length > 10) progress.recentTools.shift()"
RecentToolsMax == 10

ToolEvents ==
    { [type |-> "tool_execution_start", toolName |-> "read", preview |-> "p"],
      [type |-> "tool_execution_start", toolName |-> "bash", preview |-> ""],
      [type |-> "tool_execution_start", toolName |-> "undefined", preview |-> ""],
      [type |-> "tool_execution_end", toolName |-> "undefined", preview |-> ""],
      [type |-> "message_update", toolName |-> "undefined", preview |-> ""] }

\* the progress fields the tool events write
ToolProgress ==
    [currentTool |-> "undefined", currentToolArgs |-> "undefined",
     recentTools |-> <<>>, toolCount |-> 0]

\* if (event.type === "tool_execution_start")
ToolStart(p, event) ==
    [p EXCEPT !.currentTool = event.toolName, !.currentToolArgs = event.preview]

\* if (event.type === "tool_execution_end"): the entry is recorded only when
\* currentTool is truthy
ToolEnd(p) ==
    LET pushed == Append(p.recentTools,
                         [tool |-> p.currentTool,
                          args |-> IF p.currentToolArgs \in {"undefined", ""}
                                   THEN "" ELSE p.currentToolArgs])
        kept   == IF Len(pushed) > RecentToolsMax THEN Tail(pushed) ELSE pushed
        counted == IF p.currentTool \notin {"undefined", ""}
                   THEN [p EXCEPT !.recentTools = kept, !.toolCount = @ + 1]
                   ELSE p
    IN  [counted EXCEPT !.currentTool = "undefined", !.currentToolArgs = "undefined"]

ToolInit ==
    \E n \in 0..MaxEvents :
        \E events \in [1..n -> ToolEvents] :
            fn = [pc |-> "tools", events |-> events, done |-> 0,
                  progress |-> ToolProgress, emits |-> 0]

\* processLine for the next event of the stream
ProcessToolEvent ==
    /\ fn.pc = "tools"
    /\ fn.done < Len(fn.events)
    /\ LET event == fn.events[fn.done + 1]
       IN  fn' = [fn EXCEPT
                    !.done = @ + 1,
                    !.progress = IF event.type = "tool_execution_start"
                                 THEN ToolStart(@, event)
                                 ELSE IF event.type = "tool_execution_end"
                                 THEN ToolEnd(@)
                                 ELSE @,
                    !.emits = IF event.type \in {"tool_execution_start",
                                                 "tool_execution_end"}
                              THEN @ + 1 ELSE @]
    /\ UNCHANGED <<dagVars, ra, pool, race, disp, chain>>

SpecToolsInit ==
    /\ ToolInit /\ DagIdle
    /\ ra = Idle /\ pool = Idle /\ race = Idle /\ disp = Idle /\ chain = Idle

\* the tool events of one run
SpecTools == SpecToolsInit /\ [][ProcessToolEvent]_vars

\* the tool_execution_end events processed so far
EndsProcessed ==
    Cardinality({k \in 1..fn.done : fn.events[k].type = "tool_execution_end"})

\* C31: for every event stream (overlapping tool executions and an end
\* without a start included), each tool_execution_end processed appends one
\* entry to recentTools, kept to the newest 10, and increments toolCount:
\* toolCount is the number of tool_execution_end events processed.
C31_ToolCountCountsEnds ==
    /\ fn.progress.toolCount = EndsProcessed
    /\ Len(fn.progress.recentTools) = Min(EndsProcessed, RecentToolsMax)

(***************************************************************************)
(* getFinalOutput (executor.ts).                                           *)
(*                                                                         *)
(* A message is [role, content], content a sequence of parts [type, text]. *)
(***************************************************************************)
\* runAgent has collected at most MaxMessages messages
MaxMessages == 2

TextPart(text) == [type |-> "text", text |-> text]
ToolCallPart == [type |-> "toolCall", text |-> "undefined"]

\* the contents of an assistant message: up to two parts
AssistantContents ==
    LET parts == {TextPart("x"), TextPart("y"), ToolCallPart}
    IN  {<<>>} \cup {<<p>> : p \in parts} \cup {<<p, q>> : p \in parts, q \in parts}

\* an assistant message (message_end) or a tool result (tool_result_end)
MessageValues ==
    {[role |-> "assistant", content |-> c] : c \in AssistantContents}
        \cup {[role |-> "toolResult", content |-> <<TextPart("r")>>]}

\* for (const part of msg.content) if (part.type === "text") return part.text
FirstTextPart(content) ==
    LET texts == {k \in 1..Len(content) : content[k].type = "text"}
    IN  IF texts = {} THEN 0 ELSE CHOOSE a \in texts : \A b \in texts : a <= b

\* for (let i = messages.length - 1; i >= 0; i--)
RECURSIVE ScanMessages(_, _)
ScanMessages(messages, i) ==
    IF i = 0 THEN ""
    ELSE IF messages[i].role = "assistant" /\ FirstTextPart(messages[i].content) # 0
    THEN messages[i].content[FirstTextPart(messages[i].content)].text
    ELSE ScanMessages(messages, i - 1)

getFinalOutput(messages) == ScanMessages(messages, Len(messages))

FinalOutputInit ==
    \E n \in 0..MaxMessages :
        \E messages \in [1..n -> MessageValues] :
            fn = [pc |-> "start", messages |-> messages, result |-> ""]

\* the call of getFinalOutput
FinalOutputCall ==
    /\ fn.pc = "start"
    /\ fn' = [fn EXCEPT !.pc = "returned", !.result = getFinalOutput(fn.messages)]
    /\ UNCHANGED <<dagVars, ra, pool, race, disp, chain>>

SpecFinalOutputInit ==
    /\ FinalOutputInit /\ DagIdle
    /\ ra = Idle /\ pool = Idle /\ race = Idle /\ disp = Idle /\ chain = Idle

\* one call of getFinalOutput
SpecFinalOutput == SpecFinalOutputInit /\ [][FinalOutputCall]_vars

\* the last text part of the last assistant message, "" when that message
\* has no text part or there is no assistant message
LastAssistantText(messages) ==
    LET assistants == {k \in 1..Len(messages) : messages[k].role = "assistant"}
    IN  IF assistants = {} THEN ""
        ELSE LET content == messages[CHOOSE a \in assistants :
                                         \A b \in assistants : a >= b].content
                 texts   == {k \in 1..Len(content) : content[k].type = "text"}
             IN  IF texts = {} THEN ""
                 ELSE content[CHOOSE a \in texts : \A b \in texts : a >= b].text

\* C32: for every sequence of messages, the final output is the last text
\* part of the last assistant message (the empty string when there is no
\* assistant text), however many text parts that message has.
C32_FinalOutputIsLastText ==
    fn.pc = "returned" => fn.result = LastAssistantText(fn.messages)

(***************************************************************************)
(* runAgent: the stdout 'data' and 'close' handlers (executor.ts).         *)
(*                                                                         *)
(* The child writes UTF-8; a 'data' event hands over a Buffer of bytes,    *)
(* cut anywhere.  "c3" "a9" are the two bytes of one character ("e9");     *)
(* data.toString() decodes the bytes of one chunk and gives U+FFFD         *)
(* ("fffd") for a byte that is no complete character within the chunk.     *)
(***************************************************************************)
\* the child writes at most MaxContentLen bytes to stdout
MaxContentLen == 4

StdoutBytes == {"a", " ", "\n", "c3", "a9"}

\* the bytes are the encoding of a string
ValidUtf8(bytes) ==
    \A k \in 1..Len(bytes) :
        /\ bytes[k] = "c3" => k < Len(bytes) /\ bytes[k + 1] = "a9"
        /\ bytes[k] = "a9" => k > 1 /\ bytes[k - 1] = "c3"

\* data.toString() of a Buffer
RECURSIVE BufferToString(_)
BufferToString(bytes) ==
    IF bytes = <<>> THEN <<>>
    ELSE IF bytes[1] = "c3" /\ Len(bytes) >= 2 /\ bytes[2] = "a9"
    THEN <<"e9">> \o BufferToString(SubSeq(bytes, 3, Len(bytes)))
    ELSE IF bytes[1] \in {"c3", "a9"} THEN <<"fffd">> \o BufferToString(Tail(bytes))
    ELSE <<bytes[1]>> \o BufferToString(Tail(bytes))

\* processLine: "if (!line.trim()) return", else the line is handled
ProcessLines(processed, lines) ==
    processed \o SelectSeq(lines, LAMBDA line : Trim(line) # <<>>)

\* the end of the chunk that starts after byte pos
ChunkEnd(content, cuts, pos) ==
    LET ends == {c \in cuts : c > pos} \cup {Len(content)}
    IN  CHOOSE a \in ends : \A b \in ends : a <= b

StdoutInit ==
    \E n \in 0..MaxContentLen :
        \E content \in [1..n -> StdoutBytes] :
            /\ ValidUtf8(content)
            /\ \E cuts \in SUBSET (1..(n - 1)) :
                   fn = [pc |-> "stream", content |-> content, cuts |-> cuts,
                         pos |-> 0, buffer |-> <<>>, processed |-> <<>>]

\* proc.stdout.on("data"): the next chunk arrives
StdoutData ==
    /\ fn.pc = "stream"
    /\ fn.pos < Len(fn.content)
    /\ LET end   == ChunkEnd(fn.content, fn.cuts, fn.pos)
           data  == SubSeq(fn.content, fn.pos + 1, end)
           lines == Split(fn.buffer \o BufferToString(data))
       IN  fn' = [fn EXCEPT
                    !.pos = end,
                    !.buffer = lines[Len(lines)],
                    !.processed = ProcessLines(@, SubSeq(lines, 1, Len(lines) - 1))]
    /\ UNCHANGED <<dagVars, ra, pool, race, disp, chain>>

\* proc.on("close"): the stream has ended
StdoutClose ==
    /\ fn.pc = "stream"
    /\ fn.pos = Len(fn.content)
    /\ fn' = [fn EXCEPT
                !.pc = "closed",
                !.processed = IF Trim(fn.buffer) # <<>>
                              THEN ProcessLines(@, <<fn.buffer>>) ELSE @]
    /\ UNCHANGED <<dagVars, ra, pool, race, disp, chain>>

StdoutNext == StdoutData \/ StdoutClose

SpecStdoutInit ==
    /\ StdoutInit /\ DagIdle
    /\ ra = Idle /\ pool = Idle /\ race = Idle /\ disp = Idle /\ chain = Idle

\* the stdout of one child
SpecStdout == SpecStdoutInit /\ [][StdoutNext]_vars

\* the non-blank lines of the stdout content
ContentLines(content) == ProcessLines(<<>>, Split(BufferToString(content)))

\* C33: for every stdout content and every way of splitting it into data
\* chunks (boundaries inside a line and a last line without newline
\* included), runAgent processes the same sequence of non-blank lines, each
\* once and in order, the unterminated tail only on stream close.
C33_SameLinesForEverySplit ==
    /\ fn.pc = "closed" => fn.processed = ContentLines(fn.content)
    /\ fn.pc = "stream" =>
           LET whole == Split(BufferToString(SubSeq(fn.content, 1, fn.pos)))
           IN  Len(fn.processed) = Len(ProcessLines(<<>>, SubSeq(whole, 1, Len(whole) - 1)))

(***************************************************************************)
(* Readiness and the batch in flight.                                      *)
(***************************************************************************)
\* a batch has been marked running and its results are not all processed
BatchInFlight ==
    /\ pc \in {"batch", "review", "revision"}
    /\ ~(pc = "batch" /\ AllClosed /\ procIdx = Len(batch))

WorkersSpawned(q) == Cardinality({i \in 1..Len(q) : q[i].kind = "worker"})

\* C34: in executeDag, from the moment a batch is marked running until all
\* of its results (the synchronous review cycles included) have been
\* processed, no node changes from pending to ready or blocked and no new
\* worker batch is started; readiness is recomputed after the whole batch
\* has resolved.
C34_ReadinessAfterBatch ==
    [][BatchInFlight =>
          /\ \A n \in NodeIds(nodes) :
                nodes[n].status = "pending" => nodes'[n].status = "pending"
          /\ batch' = batch
          /\ WorkersSpawned(spawned') = WorkersSpawned(spawned)
      ]_vars

\* a reviewed task has completed in its review cycle, a task that waits for
\* it alone is still pending, and the batch has a result that is not
\* processed yet
C34_Witness ==
    /\ pc = "batch" /\ AllClosed /\ procIdx < Len(batch)
    /\ \E d \in NodeIds(nodes) :
          /\ nodes[d].status = "pending" /\ allDepsComplete(nodes, d)
          /\ \E n \in nodes[d].dependsOn : nodes[n].reviewHistory # <<>>

(***************************************************************************)
(* Parallel mode: what is reported of an aborted task.                     *)
(***************************************************************************)
\* the tasks of the call whose TaskResult has aborted = true
AbortedTasks ==
    {i \in 1..pool.n : pool.results[i] # Undefined /\ pool.results[i].aborted}

\* C35: in parallel mode every task whose TaskResult has aborted = true has
\* the final progress status aborted in the progress array of the details
\* (it is never reported as completed), and the response text carries the
\* aborted marker.
C35_AbortedTaskReportedAborted ==
    pool.pc = "returned" =>
        /\ \A i \in AbortedTasks : pool.progress[i] = "aborted"
        /\ AbortedTasks # {} => pool.aborted

\* C40: in parallel mode the 'N/M succeeded' count of the response counts
\* the tasks that ran to successful completion: a task whose TaskResult has
\* aborted = true is never counted as succeeded, whatever exit code its
\* killed child reported.
C40_AbortedNeverCountedSucceeded ==
    pool.pc = "returned" =>
        pool.successCount =
            Cardinality({i \in 1..pool.n :
                            /\ pool.results[i] # Undefined
                            /\ pool.results[i].exitCode = 0
                            /\ ~pool.results[i].aborted})

(***************************************************************************)
(* runAgent after its return.                                              *)
(***************************************************************************)
\* C36: once runAgent has returned the TaskResult of a task, the progress
\* sink of the task receives no further update and the published status of
\* the task does not change any more, also when the token fires afterwards.
C36_NoUpdateAfterReturn ==
    ra.pc = "returned" =>
        /\ ra.lateEmits = 0
        /\ ra.progressStatus = ra.finalStatus

\* C37: for every TaskResult that runAgent returns with aborted not true,
\* exitCode is 0 exactly when error is undefined; and when a non-zero
\* exitCode came from the exit of the child, error is stderr if that is not
\* empty, else "Exit code: <code>".
C37_ErrorIffNonZeroExit ==
    (ra.pc = "returned" /\ ~ra.result.aborted) =>
        /\ ra.result.exitCode = 0 <=> ra.result.error = "none"
        /\ ra.exit = "code1" =>
              /\ ra.result.exitCode = 1
              /\ ra.result.error = IF ra.stderr THEN "stderr" ELSE "exitcode"

\* a child that wrote to stderr and reported an API error exited with code 1
C37_Witness ==
    /\ ra.pc = "returned" /\ ~ra.result.aborted
    /\ ra.exit = "code1" /\ ra.stderr /\ ra.apiError > 0
    /\ ra.result.error = "stderr"

(***************************************************************************)
(* The runs of a reviewed task.                                            *)
(***************************************************************************)
\* the children of a kind started for node n
RunsOf(n, kinds) ==
    Cardinality({i \in 1..Len(spawned) : spawned[i].node = n /\ spawned[i].kind \in kinds})

\* maxIterations as the task gives it
GivenMaxIterations(node) ==
    IF node.review.hasMax THEN node.review.maxIterations ELSE DEFAULT_MAX_ITERATIONS

\* at most M reviewer runs, M worker runs and M - 1 revisions for node n
RunsWithinMaxIterations(n) ==
    LET M == GivenMaxIterations(nodes[n])
    IN  /\ RunsOf(n, {"review"}) <= M
        /\ RunsOf(n, {"worker", "revision"}) <= M
        /\ RunsOf(n, {"revision"}) <= M - 1

SpecFair ==
    /\ Spec
    /\ WF_vars(TeamExecute)
    /\ WF_vars(LoopTop)
    /\ WF_vars(\E approved \in BOOLEAN, feedback \in BOOLEAN :
                  ApprovalDecision(approved, feedback))
    /\ WF_vars(\E n \in NodeIds(nodes), code \in ExitCodes, apiError \in BOOLEAN :
                  ChildClose(n, code, apiError))
    /\ WF_vars(ProcessResult)
    /\ WF_vars(\E code \in ExitCodes, apiError \in BOOLEAN, approved \in BOOLEAN :
                  ReviewerClose(code, apiError, approved))
    /\ WF_vars(\E code \in ExitCodes, apiError \in BOOLEAN : RevisionClose(code, apiError))
    /\ WF_vars(FinishBatch)

\* the concurrency limit is at least 1 and every review has maxIterations >= 1
LimitsPositive ==
    /\ TeamMaxConc(teamMaxConcurrency) >= 1
    /\ \A n \in NodeIds(nodes) :
          nodes[n].review.present => GivenMaxIterations(nodes[n]) >= 1

\* the token has fired, or a child has not exited with code 0 (an API error
\* reported with exit code 0 makes the result of the run a failure)
NotAllSucceed ==
    \/ signalAborted
    \/ \E i \in 1..Len(allResults) :
          allResults[i].exitCode # 0 \/ allResults[i].aborted
    \/ \E n \in DOMAIN batchResults :
          batchResults[n].result.exitCode # 0 \/ batchResults[n].result.aborted

AllCompleted == \A n \in NodeIds(nodes) : nodes[n].status = "completed"

\* C39: for every team that buildDag accepts, every maxConcurrency >= 1 and
\* every maxIterations >= 1, if every child spawned exits with code 0, the
\* token never fires and every approval is granted in the end, executeDag
\* returns with aborted = false and every node completed.
C39_AllSucceedTerminates ==
    LimitsPositive =>
        <>(\/ NotAllSucceed
           \/ dagReturn.returned /\ ~dagReturn.aborted /\ AllCompleted)

\* the team of four tasks has returned with every node completed, after a
\* rejected approval
C39_Witness ==
    /\ LimitsPositive /\ ~NotAllSucceed
    /\ dagReturn.returned /\ ~dagReturn.aborted /\ AllCompleted
    /\ Len(nodes) = 4 /\ rejections = MaxRejections
====
